---- MODULE Spec2Model ----
(***************************************************************************)
(* Team-to-cost-center synchronisation scripts.                            *)
(*                                                                         *)
(* The module holds four state machines over one list of variables; each   *)
(* has its own initial predicate and next-state relation and leaves the    *)
(* variables of the others at their idle values:                           *)
(*   SpecBackoff  request_with_backoff                    (src/test.py)    *)
(*   SpecPager    fetch_enterprise_team_member_logins     (src/test.py,    *)
(*                src/sync_team_cost_center_exact.py)                      *)
(*   SpecChunk    chunked                                 (src/test.py)    *)
(*   Spec         main of the three sync scripts                           *)
(* Times are in tenths of a second.                                        *)
(***************************************************************************)
EXTENDS Integers, Sequences, FiniteSets, TLC

VARIABLES
    \* ---- request_with_backoff
    b_pc,          \* "idle" | "loop" | "returned" | "assert_failed"
    max_retries,   \* the max_retries argument
    attempt,       \* the loop variable: requests issued so far
    last,          \* last response received (NoResp: None)
    received,      \* the responses received, in order: [status, marked]
    n_sleeps,      \* number of time.sleep calls made
    sleep_s,       \* delay of the most recent time.sleep, tenths (-1: none yet)
    sleep_base,    \* non-jitter part of the most recent computed backoff (-1: none)
    slept_last,    \* whether a sleep followed the last response
    ret,           \* the returned response (NoResp before the return)
    \* ---- fetch_enterprise_team_member_logins
    p_pc,          \* "idle" | "loop" | "done" | "failed" | "too_many_pages"
    p_script,      \* which script's copy of the function runs
    next_url,      \* locator of the next request (<<>>: None)
    page,          \* the page counter
    logins,        \* logins collected so far, duplicates included
    n_fetches,     \* page requests issued
    srv_next,      \* the next locator the server put in its latest response (<<>>: none)
    served,        \* what the server has put in its pages, in order ("": a record without login)
    unique,        \* the returned list
    page_status,   \* status of the latest page response (0: none yet)
    \* ---- chunked
    c_pc,          \* "idle" | "called" | "returned"
    xs,            \* the argument list
    size,          \* the chunk size
    chunks,        \* the returned list of chunks
    \* ---- main of the sync scripts
    script,        \* "exact" | "batched" | "simple" ("none": no script runs)
    r_pc,          \* position in main
    chunk_size,    \* CHUNK_SIZE of the batched script
    team_members,  \* the list the team fetch returned
    remote,        \* the users the remote cost center holds
    remote0,       \* the users it held when the run started
    cc_status,     \* status of the cost-center fetch (0: not made)
    cost_center_users, \* the list the cost-center fetch returned
    cost_center_set,
    users_to_add,
    users_to_remove,
    users_already_synced,
    pending,       \* identities the running `for login in <set>` loop has not visited
    queue,         \* batches (logins, in the add-only script) the loop has not visited
    results,       \* the report rows
    added_count,
    removed_count,
    skipped,
    error_count,
    calls,         \* mutation requests issued, in order: [action, users]
    last_call,     \* the most recent mutation call: its status and how it was classified
    written,       \* whether the report was handed to the CSV writer
    run_no,        \* which run of the script over the same team this is (0: none)
    \* ---- one call of a function of the scripts
    f_pc,          \* "idle" | "called" | "returned"
    f_name,        \* the function called
    f_arg,         \* its argument
    f_ret          \* what it returned

backoffVars == <<b_pc, max_retries, attempt, last, received, n_sleeps, sleep_s,
                 sleep_base, slept_last, ret>>
pagerVars == <<p_pc, p_script, next_url, page, logins, n_fetches, srv_next,
              served, unique, page_status>>
chunkVars == <<c_pc, xs, size, chunks>>
runVars == <<cost_center_users, script, r_pc, chunk_size, team_members, remote, remote0, cc_status,
             cost_center_set, users_to_add, users_to_remove, users_already_synced,
             pending, queue, results, added_count, removed_count, skipped, error_count,
             calls, last_call, written, run_no>>
callVars == <<f_pc, f_name, f_arg, f_ret>>
vars == <<backoffVars, pagerVars, chunkVars, runVars, callVars>>

Min(a, b) == IF a <= b THEN a ELSE b

RECURSIVE Pow2(_)
Pow2(n) == IF n = 0 THEN 1 ELSE 2 * Pow2(n - 1)

(***************************************************************************)
(* Responses.  A body is what the code can tell apart: whether it decodes  *)
(* to a JSON object with a string "message" (resp.json().get works), and   *)
(* how the marker text occurs in that message and in the raw text.         *)
(***************************************************************************)
MarkerCase == {"absent", "lower", "mixed"}

Bodies ==
    {b \in [json_object : BOOLEAN, message : MarkerCase, text : MarkerCase] :
        /\ (~b.json_object) => b.message = "absent"
        /\ (b.message # "absent") => b.text = b.message}

PlainBody == [json_object |-> TRUE, message |-> "absent", text |-> "absent"]

\* Retry-After header values: RA_ABSENT (no header), RA_TEXT (a value that is
\* not all digits, such as an HTTP date), or the number a digit string denotes.
RA_ABSENT == -1
RA_TEXT == -2
RetryAfterDigits == {0, 5, 70}
RetryAfterValues == {RA_ABSENT, RA_TEXT} \cup RetryAfterDigits

Responses ==
    {[status |-> s, body |-> PlainBody, retry_after |-> RA_ABSENT] : s \in {200, 500}}
    \cup {[status |-> 429, body |-> PlainBody, retry_after |-> ra] : ra \in RetryAfterValues}
    \cup {[status |-> 403, body |-> b, retry_after |-> ra] :
            b \in Bodies, ra \in {RA_ABSENT, 5}}

NoResp == [status |-> 0, body |-> PlainBody, retry_after |-> RA_ABSENT]

\* whether the server marked the response as a secondary rate limit: the marker
\* text, in any letter case, is in the message of a JSON object body or in the
\* text of any other body
Marked(resp) ==
    IF resp.body.json_object THEN resp.body.message # "absent" ELSE resp.body.text # "absent"

\* what the history keeps of a response
Seen(resp) == [status |-> resp.status, marked |-> Marked(resp)]

\* str.lower() on the marker's occurrence: any casing becomes the lower-case one
Lower(m) == IF m = "absent" THEN "absent" ELSE "lower"

\* `"secondary rate limit" in msg`, msg already lower-cased
ContainsMarker(m) == m = "lower"

\* variant: the marker is looked for in the raw text of every body
is_secondary_rate_limit_rawText(resp) == ContainsMarker(Lower(resp.body.text))

is_secondary_rate_limit(resp) ==
    LET msg == IF resp.body.json_object
               THEN Lower(resp.body.message)
               ELSE Lower(resp.body.text)
    IN ContainsMarker(msg)

DEFAULT_MAX_RETRIES == 8
MAX_BACKOFF_SECONDS == 60
JITTER_MAX == 15
MaxRetriesArg == 3

MaxRetriesChoices == (0 .. MaxRetriesArg) \cup {DEFAULT_MAX_RETRIES}
JitterChoices == {0, JITTER_MAX \div 2, JITTER_MAX}

\* variant: the exponential delay is not capped
BackoffBase_uncapped(a) == 10 * Pow2(a)

\* min(max_backoff_seconds, 2**attempt), in tenths of a second
BackoffBase(a) == 10 * Min(MAX_BACKOFF_SECONDS, Pow2(a))

\* `retry_after and retry_after.isdigit()`
HasDigitRetryAfter(resp) == resp.retry_after >= 0

\* the sleep_s the code computes for a response at loop index a, jitter j
ComputedSleep(resp, a, j) ==
    IF HasDigitRetryAfter(resp) THEN 10 * resp.retry_after ELSE BackoffBase(a) + j

\* `resp.status_code not in (403, 429)`
ReturnedAtOnce(resp) == resp.status \notin {403, 429}

\* variant: every 403 is slept on and retried
SleepsAndRetries_any403(resp) == resp.status = 429 \/ resp.status = 403

\* `resp.status_code == 429 or is_secondary_rate_limit(resp)`
SleepsAndRetries(resp) == resp.status = 429 \/ is_secondary_rate_limit(resp)

\* variant: one iteration too many
LoopContinues_oneMore == attempt <= max_retries

\* `for attempt in range(max_retries)`: the loop has an iteration left
LoopContinues == attempt < max_retries

BackoffIdle ==
    /\ b_pc = "idle" /\ max_retries = 0 /\ attempt = 0 /\ last = NoResp
    /\ received = <<>> /\ n_sleeps = 0 /\ sleep_s = -1 /\ sleep_base = -1
    /\ slept_last = FALSE /\ ret = NoResp

InitBackoffVars ==
    /\ b_pc = "loop"
    /\ max_retries \in MaxRetriesChoices
    /\ attempt = 0 /\ last = NoResp /\ received = <<>>
    /\ n_sleeps = 0 /\ sleep_s = -1 /\ sleep_base = -1
    /\ slept_last = FALSE /\ ret = NoResp

\* one loop iteration whose response is returned before any delay is computed
AttemptReturn ==
    /\ b_pc = "loop" /\ LoopContinues
    /\ \E resp \in Responses :
        /\ ReturnedAtOnce(resp)
        /\ last' = resp
        /\ received' = Append(received, Seen(resp))
        /\ ret' = resp
    /\ b_pc' = "returned"
    /\ slept_last' = FALSE
    /\ UNCHANGED <<max_retries, attempt, n_sleeps, sleep_s, sleep_base>>

\* one loop iteration on a 403 that is not a secondary rate limit: the delay
\* is computed and thrown away, the response returned
AttemptForbidden ==
    /\ b_pc = "loop" /\ LoopContinues
    /\ \E resp \in Responses :
        /\ ~ReturnedAtOnce(resp) /\ ~SleepsAndRetries(resp)
        /\ last' = resp
        /\ received' = Append(received, Seen(resp))
        /\ ret' = resp
    /\ b_pc' = "returned"
    /\ slept_last' = FALSE
    /\ UNCHANGED <<max_retries, attempt, n_sleeps, sleep_s, sleep_base>>

\* one loop iteration on a rate-limited response: sleep, then continue
AttemptSleep ==
    /\ b_pc = "loop" /\ LoopContinues
    /\ \E resp \in Responses, j \in JitterChoices :
        /\ ~ReturnedAtOnce(resp) /\ SleepsAndRetries(resp)
        /\ last' = resp
        /\ received' = Append(received, Seen(resp))
        /\ sleep_s' = ComputedSleep(resp, attempt, j)
        /\ sleep_base' = IF HasDigitRetryAfter(resp) THEN sleep_base ELSE BackoffBase(attempt)
    /\ n_sleeps' = n_sleeps + 1
    /\ slept_last' = TRUE
    /\ attempt' = attempt + 1
    /\ UNCHANGED <<b_pc, max_retries, ret>>

\* `assert last is not None` on None: AssertionError, or, when the interpreter
\* runs with assertions stripped (-O), nothing, and None is returned
AssertOutcomes == {"assert_failed", "returned"}

\* the loop ran out: `assert last is not None; return last`
Exhausted ==
    /\ b_pc = "loop" /\ ~LoopContinues
    /\ IF last = NoResp
       THEN b_pc' \in AssertOutcomes /\ ret' = ret
       ELSE b_pc' = "returned" /\ ret' = last
    /\ UNCHANGED <<max_retries, attempt, last, received, n_sleeps, sleep_s, sleep_base,
                   slept_last>>


(***************************************************************************)
(* Link header.  A header is a sequence of tokens; "," separates the       *)
(* segments, "<" and ">" delimit a locator, the other tokens stand for     *)
(* runs of characters without any of these.  <<>> is the absent header and *)
(* the None result (a locator the code returns is never empty).            *)
(***************************************************************************)
RECURSIVE SplitOn(_, _)
\* str.split(sep): the segments of s between occurrences of sep
SplitOn(s, sep) ==
    IF \A i \in 1 .. Len(s) : s[i] # sep
    THEN <<s>>
    ELSE LET k == CHOOSE i \in 1 .. Len(s) :
                    s[i] = sep /\ \A j \in 1 .. (i - 1) : s[j] # sep
         IN <<SubSeq(s, 1, k - 1)>> \o SplitOn(SubSeq(s, k + 1, Len(s)), sep)

\* str.find(tok): 0-based index of the first occurrence, -1 when there is none
Find(part, tok) ==
    IF \E i \in 1 .. Len(part) : part[i] = tok
    THEN (CHOOSE i \in 1 .. Len(part) :
            part[i] = tok /\ \A j \in 1 .. (i - 1) : part[j] # tok) - 1
    ELSE -1

\* variant: the relation of the segment is not looked at
PartLocator_anyRelation(part) ==
    LET start == Find(part, "<") + 1
        end == Find(part, ">")
    IN IF start > 0 /\ end > start THEN SubSeq(part, start + 1, end) ELSE <<>>

\* the locator of one segment, <<>> when the segment gives none
PartLocator(part) ==
    LET start == Find(part, "<") + 1
        end == Find(part, ">")
    IN IF (\E i \in 1 .. Len(part) : part[i] = "rel=next") /\ start > 0 /\ end > start
       THEN SubSeq(part, start + 1, end)
       ELSE <<>>

RECURSIVE FirstLocator(_)
FirstLocator(parts) ==
    IF parts = <<>> THEN <<>>
    ELSE IF PartLocator(Head(parts)) # <<>> THEN PartLocator(Head(parts))
    ELSE FirstLocator(Tail(parts))

parse_next_link(link_header) ==
    IF link_header = <<>> THEN <<>> ELSE FirstLocator(SplitOn(link_header, ","))

(***************************************************************************)
(* Page payloads: a decoded JSON value is a list, a dict (its entries in   *)
(* insertion order) or a scalar.  A membership is a dict or some other     *)
(* value; "" is a missing, null or empty login.                            *)
(***************************************************************************)
Identities == {"alice", "bob", "carol", "dan"}

\* variant: items is looked up before memberships
WRAPPER_KEYS_itemsFirst == <<"items", "memberships", "value", "data">>

WRAPPER_KEYS == <<"memberships", "items", "value", "data">>

ListValue(items) == [type |-> "list", items |-> items, entries |-> <<>>]
ScalarValue == [type |-> "scalar", items |-> <<>>, entries |-> <<>>]
DictValue(entries) == [type |-> "dict", items |-> <<>>, entries |-> entries]
Entry(k, v) == [key |-> k, val |-> v]

\* an element of a list: a dict (a membership record) or anything else
Member(user_login, login) ==
    [is_dict |-> TRUE, user_is_dict |-> TRUE, user_login |-> user_login, login |-> login]
NonDictItem == [is_dict |-> FALSE, user_is_dict |-> FALSE, user_login |-> "", login |-> ""]

HasListAt(payload, key) ==
    \E i \in 1 .. Len(payload.entries) :
        payload.entries[i].key = key /\ payload.entries[i].val.type = "list"

ValueAt(payload, key) ==
    payload.entries[CHOOSE i \in 1 .. Len(payload.entries) : payload.entries[i].key = key].val

\* `isinstance(v, list) and (len(v) == 0 or isinstance(v[0], dict))`
LooksLikeRecords(v) ==
    v.type = "list" /\ (Len(v.items) = 0 \/ v.items[1].is_dict)

extract_memberships(payload) ==
    IF payload.type = "list" THEN payload.items
    ELSE IF payload.type = "dict"
    THEN IF \E k \in 1 .. Len(WRAPPER_KEYS) : HasListAt(payload, WRAPPER_KEYS[k])
         THEN LET k == CHOOSE k \in 1 .. Len(WRAPPER_KEYS) :
                        /\ HasListAt(payload, WRAPPER_KEYS[k])
                        /\ \A j \in 1 .. (k - 1) : ~HasListAt(payload, WRAPPER_KEYS[j])
              IN ValueAt(payload, WRAPPER_KEYS[k]).items
         ELSE IF \E i \in 1 .. Len(payload.entries) : LooksLikeRecords(payload.entries[i].val)
         THEN LET i == CHOOSE i \in 1 .. Len(payload.entries) :
                        /\ LooksLikeRecords(payload.entries[i].val)
                        /\ \A j \in 1 .. (i - 1) : ~LooksLikeRecords(payload.entries[j].val)
              IN payload.entries[i].val.items
         ELSE <<>>
    ELSE <<>>

\* the login one membership contributes, "" when it contributes none
MemberLogin(m) ==
    IF ~m.is_dict THEN ""
    ELSE IF m.user_is_dict /\ m.user_login # "" THEN m.user_login
    ELSE m.login

RECURSIVE PageLogins(_)
\* the logins the `for m in memberships` loop appends
PageLogins(ms) ==
    IF ms = <<>> THEN <<>>
    ELSE IF MemberLogin(Head(ms)) # ""
         THEN <<MemberLogin(Head(ms))>> \o PageLogins(Tail(ms))
         ELSE PageLogins(Tail(ms))

RECURSIVE Dedup(_, _)
\* the de-duplication loop: seen is the `seen` set, the result the `unique` list
Dedup(l, seen) ==
    IF l = <<>> THEN <<>>
    ELSE IF Head(l) \in seen THEN Dedup(Tail(l), seen)
    ELSE <<Head(l)>> \o Dedup(Tail(l), seen \cup {Head(l)})

(***************************************************************************)
(* The memberships server.  A page is built from what the server means to  *)
(* say (the records on the page, the next locator) and the kind of page:   *)
(* one of the shapes the API is known to answer with, and a Link header    *)
(* layout.                                                                 *)
(***************************************************************************)
MAX_PAGES == 200
MaxServed == 3

PagerIds == {"alice", "bob"}
\* "sync": the copy of the page loop in each sync script; "export": the loop
\* of the export script's main
PagerScripts == {"sync", "export"}
FIRST_URL == <<"memberships">>
NextUrls == {<<"page_a">>, <<"page_b">>}

\* what one page holds: identities, "" for a record that names nobody
PageItemLists ==
    {<<>>, <<"alice", "alice">>, <<"bob", "alice">>, <<"", "bob">>}
    \cup {<<a>> : a \in PagerIds \cup {""}}

RECURSIVE RenderMembers(_, _)
RenderMembers(items, shape) ==
    IF items = <<>> THEN <<>>
    ELSE <<CASE Head(items) = "" -> Member("", "")
             [] shape = "nested" -> Member(Head(items), "")
             [] shape = "flat" -> Member("", Head(items))
             [] OTHER -> Member(Head(items), "dan")>>
         \o RenderMembers(Tail(items), shape)

PageKinds == {"list", "memberships", "items_after_scalar", "scanned"}

\* the pages of kind "memberships" and "scanned" also hold an item that is no dict
RenderPayload(items, kind) ==
    CASE kind = "list" -> ListValue(RenderMembers(items, "nested"))
      [] kind = "memberships" ->
            DictValue(<<Entry("memberships",
                ListValue(RenderMembers(items, "flat") \o <<NonDictItem>>))>>)
      [] kind = "items_after_scalar" ->
            DictValue(<<Entry("foo", ScalarValue),
                        Entry("items", ListValue(RenderMembers(items, "both")))>>)
      [] OTHER ->
            DictValue(<<Entry("total", ScalarValue),
                        Entry("members", ListValue(RenderMembers(items, "nested")
                                                   \o <<NonDictItem>>))>>)

LinkNext(u) == <<"<">> \o u \o <<">", ";", "rel=next">>
LinkPrev == <<"<", "page_0", ">", ";", "rel=prev">>

\* the Link header of a page of this kind whose next page is nxt (<<>>: none)
LinkHeader(kind, nxt) ==
    IF nxt = <<>>
    THEN IF kind \in {"list", "scanned"} THEN <<>> ELSE LinkPrev
    ELSE CASE kind = "list" -> LinkNext(nxt)
           [] kind = "memberships" -> LinkNext(nxt) \o <<",">> \o LinkPrev
           [] OTHER -> LinkPrev \o <<",">> \o LinkNext(nxt)

PageStatuses == {200, 403, 404, 429, 500}

PagerIdle ==
    /\ p_pc = "idle" /\ p_script = "none" /\ next_url = <<>> /\ page = 0 /\ logins = <<>>
    /\ n_fetches = 0 /\ srv_next = <<>> /\ served = <<>> /\ unique = <<>>
    /\ page_status = 0

InitPagerVars ==
    /\ p_pc = "loop"
    /\ p_script \in PagerScripts
    /\ next_url = FIRST_URL
    /\ page = 1
    /\ logins = <<>> /\ n_fetches = 0
    /\ srv_next = <<>> /\ served = <<>> /\ unique = <<>>
    /\ page_status = 0

\* the export script reads m.get(...) on every item, a dict or not
ItemCrashes(ms) == \E i \in 1 .. Len(ms) : ~ms[i].is_dict

\* what one page adds to the collected list: the sync scripts keep the logins
\* found, the export script one row per membership (its login possibly None)
Collected(sc, ms) ==
    IF sc = "export" THEN [i \in 1 .. Len(ms) |-> MemberLogin(ms[i])] ELSE PageLogins(ms)

\* variant: the guard trips one page later
TooMany_oneLater(pg) == pg > MAX_PAGES + 1

\* `if page > 200`
TooMany(pg) == pg > MAX_PAGES

\* every page the server can answer with, and what the code reads in it:
\* ms is extract_memberships(payload), nu is parse_next_link(Link header)
ServerPages ==
    {[items |-> items, nxt |-> nxt,
      ms |-> extract_memberships(RenderPayload(items, kind)),
      nu |-> parse_next_link(LinkHeader(kind, nxt))] :
        items \in PageItemLists, kind \in PageKinds, nxt \in {<<>>} \cup NextUrls}

\* status_code != 200, or a 200 whose body is not JSON: SystemExit
PageRejected ==
    /\ p_pc = "loop" /\ next_url # <<>>
    /\ \E st \in PageStatuses, json_ok \in BOOLEAN :
        /\ (st # 200 \/ ~json_ok)
        /\ page_status' = st
    /\ n_fetches' = n_fetches + 1
    /\ p_pc' = "failed"
    /\ UNCHANGED <<p_script, next_url, page, logins, srv_next, served, unique>>

\* the export script's loop over a page that holds a non-dict item: AttributeError
PageCrashes ==
    /\ p_pc = "loop" /\ next_url # <<>>
    /\ p_script = "export"
    /\ \E pg \in ServerPages :
        /\ Len(served) + Len(pg.items) <= MaxServed
        /\ ItemCrashes(pg.ms)
    /\ page_status' = 200
    /\ n_fetches' = n_fetches + 1
    /\ p_pc' = "failed"
    /\ UNCHANGED <<p_script, next_url, page, logins, srv_next, served, unique>>

\* a page is read; what follows depends on the next locator and the counter:
\* the guard trips ("too_many"), the loop goes round ("continue"), or
\* `while next_url` ends it and the list is de-duplicated and returned ("finish")
PageRead(branch) ==
    /\ p_pc = "loop" /\ next_url # <<>>
    /\ n_fetches' = n_fetches + 1
    /\ page_status' = 200
    /\ \E pg \in ServerPages :
        /\ Len(served) + Len(pg.items) <= MaxServed
        /\ ~(p_script = "export" /\ ItemCrashes(pg.ms))
        /\ CASE branch = "too_many" -> TooMany(page + 1)
             [] branch = "continue" -> ~TooMany(page + 1) /\ pg.nu # <<>>
             [] OTHER -> ~TooMany(page + 1) /\ pg.nu = <<>>
        /\ served' = served \o pg.items
        /\ srv_next' = pg.nxt
        /\ logins' = logins \o Collected(p_script, pg.ms)
        /\ next_url' = pg.nu
        /\ page' = page + 1
        /\ p_pc' = CASE branch = "too_many" -> "too_many_pages"
                     [] branch = "continue" -> "loop"
                     [] OTHER -> "done"
        /\ unique' = IF branch = "finish" /\ p_script # "export"
                     THEN Dedup(logins \o Collected(p_script, pg.ms), {})
                     ELSE unique
    /\ UNCHANGED p_script

PageTooMany == PageRead("too_many")
PageContinue == PageRead("continue")
PageFinish == PageRead("finish")

(***************************************************************************)
(* chunked                                                                 *)
(***************************************************************************)
MaxLen == 4
MaxChunkSize == 3

ChunkIds == {"alice", "bob", "carol"}

RECURSIVE SeqsUpTo(_, _)
\* the sequences over S of length at most n
SeqsUpTo(S, n) ==
    IF n = 0 THEN {<<>>}
    ELSE SeqsUpTo(S, n - 1) \cup {Append(q, e) : q \in SeqsUpTo(S, n - 1), e \in S}

RECURSIVE Range(_, _, _)
\* range(start, stop, step) for a positive step
Range(start, stop, step) ==
    IF start >= stop THEN <<>> ELSE <<start>> \o Range(start + step, stop, step)

\* the slice l[i : j] for 0 <= i <= j
Slice(l, i, j) == SubSeq(l, i + 1, Min(j, Len(l)))

\* variant: each slice runs one element too far
chunked_longSlices(l, sz) ==
    LET starts == Range(0, Len(l), sz)
    IN [k \in 1 .. Len(starts) |-> Slice(l, starts[k], starts[k] + sz + 1)]

chunked(l, sz) ==
    LET starts == Range(0, Len(l), sz)
    IN [k \in 1 .. Len(starts) |-> Slice(l, starts[k], starts[k] + sz)]

ChunkIdle == c_pc = "idle" /\ xs = <<>> /\ size = 0 /\ chunks = <<>>

InitChunkVars ==
    /\ c_pc = "called"
    /\ xs \in SeqsUpTo(ChunkIds, MaxLen)
    /\ size \in 1 .. MaxChunkSize
    /\ chunks = <<>>

CallChunked ==
    /\ c_pc = "called"
    /\ chunks' = chunked(xs, size)
    /\ c_pc' = "returned"
    /\ UNCHANGED <<xs, size>>

(***************************************************************************)
(* Mutation outcome classification.  A response body is one of a few       *)
(* texts; Words gives the markers its lower-cased text contains.           *)
(***************************************************************************)
BodyTexts == {"", "User already exists", "Resource exists", "Conflict",
              "has already been taken", "No resources to remove", "Server error"}

\* the markers found in body.lower()
Words(body) ==
    CASE body = "User already exists" -> {"already", "exists"}
      [] body = "Resource exists" -> {"exists"}
      [] body = "Conflict" -> {"conflict"}
      [] body = "has already been taken" -> {"already", "has already been taken"}
      [] body = "No resources to remove" -> {"no resources"}
      [] OTHER -> {}

SUCCESS_CODES == {200, 201, 202, 204}
\* variant: a 429 is skipped over like a conflict
ADD_SKIP_CODES_with429 == {409, 422, 429}

ADD_SKIP_CODES == {409, 422}

Outcome(k, m) == [kind |-> k, msg |-> m]

\* add_user_to_cost_center of the reconciling script
add_user_to_cost_center_exact(status, body) ==
    IF status \in SUCCESS_CODES THEN Outcome("Success", "added")
    ELSE IF status \in ADD_SKIP_CODES
    THEN IF "already" \in Words(body) \/ "exists" \in Words(body)
         THEN Outcome("BenignSkip", "already")
         ELSE Outcome("BenignSkip", "raw")
    ELSE Outcome("HardFailure", "failed")

\* add_user_to_cost_center of the add-only script
add_user_to_cost_center(status, body) ==
    IF status \in SUCCESS_CODES THEN Outcome("Success", "added")
    ELSE IF status \in ADD_SKIP_CODES
    THEN IF \/ "already" \in Words(body) \/ "exists" \in Words(body)
            \/ "has already been taken" \in Words(body) \/ "conflict" \in Words(body)
         THEN Outcome("BenignSkip", "already")
         ELSE Outcome("BenignSkip", "raw")
    ELSE Outcome("HardFailure", "failed")

\* variant: a 409 or 422 without a duplicate marker is a hard error
add_users_to_cost_center_bulk_needsMarker(status, body) ==
    IF status \in SUCCESS_CODES THEN Outcome("Success", "added")
    ELSE IF status \in ADD_SKIP_CODES
            /\ (\/ "already" \in Words(body) \/ "exists" \in Words(body)
                \/ "has already been taken" \in Words(body) \/ "conflict" \in Words(body))
    THEN Outcome("BenignSkip", "already")
    ELSE Outcome("HardFailure", "failed")

\* add_users_to_cost_center_bulk, applied to the response request_with_backoff returns
add_users_to_cost_center_bulk(status, body) ==
    IF status \in SUCCESS_CODES THEN Outcome("Success", "added")
    ELSE IF status \in ADD_SKIP_CODES
    THEN IF \/ "already" \in Words(body) \/ "exists" \in Words(body)
            \/ "has already been taken" \in Words(body) \/ "conflict" \in Words(body)
         THEN Outcome("BenignSkip", "already")
         ELSE Outcome("BenignSkip", "raw")
    ELSE Outcome("HardFailure", "failed")

\* variant: the remove call uses the skip codes of the add call as well
remove_user_from_cost_center_addCodes(status, body) ==
    IF status \in SUCCESS_CODES THEN Outcome("Success", "removed")
    ELSE IF status \in {400, 404} \cup ADD_SKIP_CODES THEN Outcome("BenignSkip", "raw")
    ELSE Outcome("HardFailure", "failed")

remove_user_from_cost_center(status, body) ==
    IF status \in SUCCESS_CODES THEN Outcome("Success", "removed")
    ELSE IF status = 400
    THEN IF "no resources" \in Words(body)
         THEN Outcome("BenignSkip", "not_present")
         ELSE Outcome("BenignSkip", "raw")
    ELSE IF status = 404 THEN Outcome("BenignSkip", "not_found")
    ELSE Outcome("HardFailure", "failed")

(***************************************************************************)
(* main of the three sync scripts                                          *)
(***************************************************************************)
TeamIds == {"alice", "bob", "carol"}
CostCenterIds == {"bob", "carol", "dan"}
Scripts == {"exact", "batched", "simple"}

\* statuses a mutation request can end with; TRANSPORT_ERROR stands for a
\* requests exception (no response at all)
MutationStatuses == {200, 201, 202, 204, 400, 403, 404, 409, 422, 429, 500}
TRANSPORT_ERROR == -1

NoCall == [action |-> "none", status |-> 0, kind |-> "none", msg |-> "none"]
Call(a, st, o) == [action |-> a, status |-> st, kind |-> o.kind, msg |-> o.msg]

\* a report row; of a message the reconciling script's rows keep how it begins
\* ("Added", "Skip", "Removed", "Error", "Already in sync"), the add-only
\* scripts' rows which of the function's messages it is
Row(login, action, status, message) ==
    [login |-> login, action |-> action, status |-> status, message |-> message]

\* the lists without repetition over S, as the team fetch returns them
UniqueLists(S) == {l \in SeqsUpTo(S, Cardinality(S)) : \A i, j \in 1 .. Len(l) : i # j => l[i] # l[j]}

RangeOf(l) == {l[i] : i \in 1 .. Len(l)}

\* the orders in which a `for x in <set>` loop can visit S
Orders(S) == {l \in UniqueLists(S) : RangeOf(l) = S}

\* the resources array of the cost-center payload the remote answers with: its
\* users, one of them twice, a user entry without a name and a repository that
\* bears a user's name
Resources(users) ==
    LET us == CHOOSE l \in Orders(users) : TRUE
    IN [i \in 1 .. Len(us) |-> [type |-> "User", name |-> us[i]]]
       \o (IF us = <<>> THEN <<>> ELSE <<[type |-> "User", name |-> us[1]]>>)
       \o <<[type |-> "User", name |-> ""], [type |-> "Repo", name |-> "alice"]>>

\* the logins list fetch_cost_center_users collects from the resources array,
\* duplicates included, in the order of the payload
RECURSIVE CollectedLogins(_)
CollectedLogins(resources) ==
    IF resources = <<>> THEN <<>>
    ELSE LET r == Head(resources)
         IN (IF r.type = "User" /\ r.name # "" THEN <<r.name>> ELSE <<>>)
            \o CollectedLogins(Tail(resources))

\* variant: the resource type is not looked at
fetch_cost_center_users_anyType(resources) ==
    {resources[i].name : i \in {j \in 1 .. Len(resources) : resources[j].name # ""}}

\* fetch_cost_center_users on a 200 response: `set(logins)`, the names of the
\* User resources that have one
fetch_cost_center_users(resources) ==
    {resources[i].name : i \in {j \in 1 .. Len(resources) :
                                  resources[j].type = "User" /\ resources[j].name # ""}}

RunIdle ==
    /\ script = "none" /\ r_pc = "idle" /\ chunk_size = 0 /\ team_members = <<>>
    /\ remote = {} /\ remote0 = {} /\ cc_status = 0
    /\ cost_center_users = <<>> /\ cost_center_set = {}
    /\ users_to_add = {} /\ users_to_remove = {} /\ users_already_synced = {}
    /\ pending = {} /\ queue = <<>> /\ results = <<>>
    /\ added_count = 0 /\ removed_count = 0 /\ skipped = 0 /\ error_count = 0
    /\ calls = <<>> /\ last_call = NoCall /\ written = FALSE /\ run_no = 0

InitRunVars ==
    /\ script \in Scripts
    /\ r_pc = "start"
    /\ chunk_size \in (IF script = "batched" THEN 1 .. MaxChunkSize ELSE {0})
    /\ remote \in (IF script = "exact" THEN SUBSET CostCenterIds ELSE SUBSET {"bob"})
    /\ remote0 = remote
    /\ team_members = <<>> /\ cc_status = 0
    /\ cost_center_users = <<>> /\ cost_center_set = {}
    /\ users_to_add = {} /\ users_to_remove = {} /\ users_already_synced = {}
    /\ pending = {} /\ queue = <<>> /\ results = <<>>
    /\ added_count = 0 /\ removed_count = 0 /\ skipped = 0 /\ error_count = 0
    /\ calls = <<>> /\ last_call = NoCall /\ written = FALSE /\ run_no = 1

\* the team fetch returns; the add-only scripts go straight to their loop
FetchTeam ==
    /\ r_pc = "start"
    /\ \E members \in UniqueLists(TeamIds) :
        /\ team_members' = members
        /\ queue' = CASE script = "batched" -> chunked(members, chunk_size)
                      [] script = "simple" -> [i \in 1 .. Len(members) |-> <<members[i]>>]
                      [] OTHER -> <<>>
    /\ r_pc' = IF script = "exact" THEN "fetch_cc" ELSE "adding"
    /\ UNCHANGED <<run_no, cost_center_users, script, chunk_size, remote, remote0, cc_status, cost_center_set,
                   users_to_add, users_to_remove, users_already_synced, pending, results,
                   added_count, removed_count, skipped, error_count, calls, last_call,
                   written>>

\* the team fetch raises SystemExit (a page failed or the page guard tripped)
FetchTeamFails ==
    /\ r_pc = "start"
    /\ r_pc' = "aborted"
    /\ UNCHANGED <<run_no, cost_center_users, script, chunk_size, team_members, remote, remote0, cc_status,
                   cost_center_set, users_to_add, users_to_remove, users_already_synced,
                   pending, queue, results, added_count, removed_count, skipped,
                   error_count, calls, last_call, written>>

\* where main goes once a loop has `left` to visit and the later loop `later`
Phase(left, later) ==
    IF left # {} THEN "adding" ELSE IF later # {} THEN "removing" ELSE "report"

\* variant: every team member is planned for an add
PlanToAdd_everyMember(team_set, cc_set) == team_set

\* the sync plan of main, from the two fetched collections
PlanToAdd(team_set, cc_set) == team_set \ cc_set
\* variant: the identities already in the team are not taken out
PlanToRemove_keepsSynced(team_set, cc_set) == cc_set

PlanToRemove(team_set, cc_set) == cc_set \ team_set
\* variant: every team member counts as already synced
PlanSynced_everyMember(team_set, cc_set) == team_set

PlanSynced(team_set, cc_set) == team_set \cap cc_set

\* the cost-center fetch answers 200 (cc_users: the list the function returns)
\* or 404 (the function returns []); main makes a set of it and computes the plan
Plan(st, cc_users) ==
    LET team_set == RangeOf(team_members)
        cc_set == RangeOf(cc_users)
    IN /\ cc_status' = st
       /\ cost_center_users' = cc_users
       /\ cost_center_set' = cc_set
       /\ users_to_add' = PlanToAdd(team_set, cc_set)
       /\ users_to_remove' = PlanToRemove(team_set, cc_set)
       /\ users_already_synced' = PlanSynced(team_set, cc_set)
       /\ pending' = IF PlanToAdd(team_set, cc_set) # {}
                     THEN PlanToAdd(team_set, cc_set)
                     ELSE PlanToRemove(team_set, cc_set)
       /\ r_pc' = Phase(PlanToAdd(team_set, cc_set), PlanToRemove(team_set, cc_set))
       /\ UNCHANGED <<run_no, script, chunk_size, team_members, remote, remote0, queue, results,
                      added_count, removed_count, skipped, error_count, calls, last_call,
                      written>>

\* `list(set(logins))`: the distinct values, in the set's iteration order
ListOfSet(S) == Orders(S)

FetchCostCenter ==
    /\ r_pc = "fetch_cc"
    /\ \E unique_logins \in ListOfSet(fetch_cost_center_users(Resources(remote))) :
        Plan(200, unique_logins)

\* variant: a 404 is treated like the other failures of the fetch
FetchCostCenterNotFound_aborts ==
    /\ r_pc = "fetch_cc" /\ remote = {}
    /\ cc_status' = 404
    /\ r_pc' = "aborted"
    /\ UNCHANGED <<run_no, cost_center_users, script, chunk_size, team_members, remote, remote0,
                   cost_center_set, users_to_add, users_to_remove, users_already_synced,
                   pending, queue, results, added_count, removed_count, skipped,
                   error_count, calls, last_call, written>>

\* a cost center that does not exist holds no users
FetchCostCenterNotFound ==
    /\ r_pc = "fetch_cc" /\ remote = {}
    /\ Plan(404, <<>>)

\* any other status, or a body that is not JSON: SystemExit
FetchCostCenterFails ==
    /\ r_pc = "fetch_cc"
    /\ \E st \in {200, 403, 429, 500} : cc_status' = st
    /\ r_pc' = "aborted"
    /\ UNCHANGED <<run_no, cost_center_users, script, chunk_size, team_members, remote, remote0, cost_center_set,
                   users_to_add, users_to_remove, users_already_synced, pending, queue,
                   results, added_count, removed_count, skipped, error_count, calls,
                   last_call, written>>

\* CHUNK_SIZE as the batched script configures it by default; the reconciling
\* script reads no chunk size
DEFAULT_CHUNK_SIZE == 25

\* whether the script's mutation requests go through request_with_backoff; the
\* other scripts call requests.post / requests.delete once and classify what
\* comes back
UsesExecutor(sc) == sc = "batched"

\* every way a mutation request can be answered and classified: the status, and
\* the outcome the script's function makes of status and body
ExactAddAnswers ==
    {Call("add", st, add_user_to_cost_center_exact(st, body)) :
        st \in MutationStatuses, body \in BodyTexts}
ExactRemoveAnswers ==
    {Call("remove", st, remove_user_from_cost_center(st, body)) :
        st \in MutationStatuses, body \in BodyTexts}
BulkAddAnswers ==
    {Call("add", st, add_users_to_cost_center_bulk(st, body)) :
        st \in MutationStatuses, body \in BodyTexts}
SimpleAddAnswers ==
    {Call("add", st, add_user_to_cost_center(st, body)) :
        st \in MutationStatuses, body \in BodyTexts}
TransportError(a) == Call(a, TRANSPORT_ERROR, Outcome("Exception", "error"))

\* what a transport error leaves behind: the request may or may not have
\* reached the remote
MaybeApplied(applied) == {remote, applied}

\* ---- the reconciling script: `for login in users_to_add`
\* a classified response (ok or skip): one row, next identity
ExactAdd ==
    /\ script = "exact" /\ r_pc = "adding"
    /\ \E login \in pending, o \in ExactAddAnswers :
        LET ok == o.kind = "Success"
        IN /\ o.kind # "HardFailure"
           /\ results' = Append(results,
                            Row(login, "add", IF ok THEN "success" ELSE "skipped",
                                IF ok THEN "Added" ELSE "Skip"))
           /\ added_count' = IF ok THEN added_count + 1 ELSE added_count
           /\ remote' = IF ok THEN remote \cup {login} ELSE remote
           /\ calls' = Append(calls, [action |-> "add", users |-> <<login>>])
           /\ last_call' = o
           /\ pending' = IF pending \ {login} # {} THEN pending \ {login} ELSE users_to_remove
           /\ r_pc' = Phase(pending \ {login}, users_to_remove)
    /\ UNCHANGED <<run_no, cost_center_users, script, chunk_size, team_members, remote0, cc_status, cost_center_set,
                   users_to_add, users_to_remove, users_already_synced, queue,
                   removed_count, skipped, error_count, written>>

\* variant: the hard failure is caught like a transport error, as a per-item error
ExactAddAbort_caught ==
    /\ script = "exact" /\ r_pc = "adding"
    /\ \E login \in pending, o \in ExactAddAnswers :
        /\ o.kind = "HardFailure"
        /\ results' = Append(results, Row(login, "add", "error", "Error"))
        /\ calls' = Append(calls, [action |-> "add", users |-> <<login>>])
        /\ last_call' = o
        /\ pending' = IF pending \ {login} # {} THEN pending \ {login} ELSE users_to_remove
        /\ r_pc' = Phase(pending \ {login}, users_to_remove)
    /\ error_count' = error_count + 1
    /\ UNCHANGED <<run_no, cost_center_users, script, chunk_size, team_members, remote, remote0, cc_status,
                   cost_center_set, users_to_add, users_to_remove, users_already_synced,
                   queue, added_count, removed_count, skipped, written>>

\* SystemExit is not an Exception: the `except Exception` does not catch it
ExactAddAbort ==
    /\ script = "exact" /\ r_pc = "adding"
    /\ \E login \in pending, o \in ExactAddAnswers :
        /\ o.kind = "HardFailure"
        /\ calls' = Append(calls, [action |-> "add", users |-> <<login>>])
        /\ last_call' = o
    /\ r_pc' = "aborted"
    /\ UNCHANGED <<run_no, cost_center_users, script, chunk_size, team_members, remote, remote0, cc_status,
                   cost_center_set, users_to_add, users_to_remove, users_already_synced,
                   pending, queue, results, added_count, removed_count, skipped,
                   error_count, written>>

\* variant: the error is counted but leaves no row
ExactAddError_noRow ==
    /\ script = "exact" /\ r_pc = "adding"
    /\ \E login \in pending :
        /\ remote' \in MaybeApplied(remote \cup {login})
        /\ calls' = Append(calls, [action |-> "add", users |-> <<login>>])
        /\ last_call' = TransportError("add")
        /\ pending' = IF pending \ {login} # {} THEN pending \ {login} ELSE users_to_remove
        /\ r_pc' = Phase(pending \ {login}, users_to_remove)
    /\ error_count' = error_count + 1
    /\ UNCHANGED <<run_no, cost_center_users, script, chunk_size, team_members, remote0, cc_status,
                   cost_center_set, users_to_add, users_to_remove, users_already_synced,
                   queue, results, added_count, removed_count, skipped, written>>

\* requests raised: the `except Exception` branch
ExactAddError ==
    /\ script = "exact" /\ r_pc = "adding"
    /\ \E login \in pending :
        /\ results' = Append(results, Row(login, "add", "error", "Error"))
        /\ remote' \in MaybeApplied(remote \cup {login})
        /\ calls' = Append(calls, [action |-> "add", users |-> <<login>>])
        /\ last_call' = TransportError("add")
        /\ pending' = IF pending \ {login} # {} THEN pending \ {login} ELSE users_to_remove
        /\ r_pc' = Phase(pending \ {login}, users_to_remove)
    /\ error_count' = error_count + 1
    /\ UNCHANGED <<run_no, cost_center_users, script, chunk_size, team_members, remote0, cc_status, cost_center_set,
                   users_to_add, users_to_remove, users_already_synced, queue,
                   added_count, removed_count, skipped, written>>

\* variant: the remote answers a remove with success and keeps the user
ExactRemove_notApplied ==
    /\ script = "exact" /\ r_pc = "removing"
    /\ \E login \in pending, o \in ExactRemoveAnswers :
        LET ok == o.kind = "Success"
        IN /\ o.kind # "HardFailure"
           /\ results' = Append(results,
                            Row(login, "remove", IF ok THEN "success" ELSE "skipped",
                                IF ok THEN "Removed" ELSE "Skip"))
           /\ removed_count' = IF ok THEN removed_count + 1 ELSE removed_count
           /\ calls' = Append(calls, [action |-> "remove", users |-> <<login>>])
           /\ last_call' = o
           /\ pending' = pending \ {login}
           /\ r_pc' = IF pending \ {login} # {} THEN "removing" ELSE "report"
    /\ UNCHANGED <<run_no, cost_center_users, script, chunk_size, team_members, remote, remote0,
                   cc_status, cost_center_set, users_to_add, users_to_remove,
                   users_already_synced, queue, added_count, skipped, error_count, written>>

\* ---- the reconciling script: `for login in users_to_remove`
ExactRemove ==
    /\ script = "exact" /\ r_pc = "removing"
    /\ \E login \in pending, o \in ExactRemoveAnswers :
        LET ok == o.kind = "Success"
        IN /\ o.kind # "HardFailure"
           /\ results' = Append(results,
                            Row(login, "remove", IF ok THEN "success" ELSE "skipped",
                                IF ok THEN "Removed" ELSE "Skip"))
           /\ removed_count' = IF ok THEN removed_count + 1 ELSE removed_count
           /\ remote' = IF ok THEN remote \ {login} ELSE remote
           /\ calls' = Append(calls, [action |-> "remove", users |-> <<login>>])
           /\ last_call' = o
           /\ pending' = pending \ {login}
           /\ r_pc' = IF pending \ {login} # {} THEN "removing" ELSE "report"
    /\ UNCHANGED <<run_no, cost_center_users, script, chunk_size, team_members, remote0, cc_status, cost_center_set,
                   users_to_add, users_to_remove, users_already_synced, queue,
                   added_count, skipped, error_count, written>>

ExactRemoveAbort ==
    /\ script = "exact" /\ r_pc = "removing"
    /\ \E login \in pending, o \in ExactRemoveAnswers :
        /\ o.kind = "HardFailure"
        /\ calls' = Append(calls, [action |-> "remove", users |-> <<login>>])
        /\ last_call' = o
    /\ r_pc' = "aborted"
    /\ UNCHANGED <<run_no, cost_center_users, script, chunk_size, team_members, remote, remote0, cc_status,
                   cost_center_set, users_to_add, users_to_remove, users_already_synced,
                   pending, queue, results, added_count, removed_count, skipped,
                   error_count, written>>

\* variant: an exception in the remove loop ends the run
ExactRemoveError_aborts ==
    /\ script = "exact" /\ r_pc = "removing"
    /\ \E login \in pending :
        /\ remote' \in MaybeApplied(remote \ {login})
        /\ calls' = Append(calls, [action |-> "remove", users |-> <<login>>])
        /\ last_call' = TransportError("remove")
    /\ r_pc' = "aborted"
    /\ UNCHANGED <<run_no, cost_center_users, script, chunk_size, team_members, remote0, cc_status,
                   cost_center_set, users_to_add, users_to_remove, users_already_synced,
                   pending, queue, results, added_count, removed_count, skipped,
                   error_count, written>>

ExactRemoveError ==
    /\ script = "exact" /\ r_pc = "removing"
    /\ \E login \in pending :
        /\ results' = Append(results, Row(login, "remove", "error", "Error"))
        /\ remote' \in MaybeApplied(remote \ {login})
        /\ calls' = Append(calls, [action |-> "remove", users |-> <<login>>])
        /\ last_call' = TransportError("remove")
        /\ pending' = pending \ {login}
        /\ r_pc' = IF pending \ {login} # {} THEN "removing" ELSE "report"
    /\ error_count' = error_count + 1
    /\ UNCHANGED <<run_no, cost_center_users, script, chunk_size, team_members, remote0, cc_status, cost_center_set,
                   users_to_add, users_to_remove, users_already_synced, queue,
                   added_count, removed_count, skipped, written>>

\* variant: the already-synced rows are put in front of the report
ExactReport_rowsFirst ==
    /\ script = "exact" /\ r_pc = "report"
    /\ \E order \in Orders(users_already_synced) :
        results' = [i \in 1 .. Len(order) |->
                        Row(order[i], "none", "already_synced", "Already in sync")] \o results
    /\ written' = TRUE
    /\ r_pc' = "done"
    /\ UNCHANGED <<run_no, cost_center_users, script, chunk_size, team_members, remote, remote0, cc_status,
                   cost_center_set, users_to_add, users_to_remove, users_already_synced,
                   pending, queue, added_count, removed_count, skipped, error_count,
                   calls, last_call>>

\* the already-synced rows, then the CSV writer and the summary
ExactReport ==
    /\ script = "exact" /\ r_pc = "report"
    /\ \E order \in Orders(users_already_synced) :
        results' = results \o [i \in 1 .. Len(order) |->
                                 Row(order[i], "none", "already_synced", "Already in sync")]
    /\ written' = TRUE
    /\ r_pc' = "done"
    /\ UNCHANGED <<run_no, cost_center_users, script, chunk_size, team_members, remote, remote0, cc_status,
                   cost_center_set, users_to_add, users_to_remove, users_already_synced,
                   pending, queue, added_count, removed_count, skipped, error_count,
                   calls, last_call>>

\* variant: one row per batch, for its first login
BatchRows_firstOnly(batch, result, msg) == <<Row(batch[1], "add", result, msg)>>

\* one report row per login of a batch, all with the batch's result and message
BatchRows(batch, result, msg) ==
    [i \in 1 .. Len(batch) |-> Row(batch[i], "add", result, msg)]

\* ---- the batched script: `for idx, batch in enumerate(batches, start=1)`
BatchAdd ==
    /\ script = "batched" /\ r_pc = "adding" /\ queue # <<>>
    /\ \E o \in BulkAddAnswers :
        LET batch == Head(queue)
            ok == o.kind = "Success"
        IN /\ o.kind # "HardFailure"
           /\ results' = results \o BatchRows(batch, IF ok THEN "added" ELSE "skipped", o.msg)
           /\ added_count' = IF ok THEN added_count + Len(batch) ELSE added_count
           /\ skipped' = IF ok THEN skipped ELSE skipped + Len(batch)
           /\ remote' = IF ok THEN remote \cup RangeOf(batch) ELSE remote
           /\ calls' = Append(calls, [action |-> "add", users |-> batch])
           /\ last_call' = o
    /\ queue' = Tail(queue)
    /\ UNCHANGED <<run_no, cost_center_users, script, r_pc, chunk_size, team_members, remote0, cc_status,
                   cost_center_set, users_to_add, users_to_remove, users_already_synced,
                   pending, removed_count, error_count, written>>

BatchAbort ==
    /\ script = "batched" /\ r_pc = "adding" /\ queue # <<>>
    /\ \E o \in BulkAddAnswers :
        /\ o.kind = "HardFailure"
        /\ calls' = Append(calls, [action |-> "add", users |-> Head(queue)])
        /\ last_call' = o
    /\ r_pc' = "aborted"
    /\ UNCHANGED <<run_no, cost_center_users, script, chunk_size, team_members, remote, remote0, cc_status,
                   cost_center_set, users_to_add, users_to_remove, users_already_synced,
                   pending, queue, results, added_count, removed_count, skipped,
                   error_count, written>>

\* requests raised: nothing in the batched script catches it
BatchCrash ==
    /\ script = "batched" /\ r_pc = "adding" /\ queue # <<>>
    /\ remote' \in MaybeApplied(remote \cup RangeOf(Head(queue)))
    /\ calls' = Append(calls, [action |-> "add", users |-> Head(queue)])
    /\ last_call' = TransportError("add")
    /\ r_pc' = "crashed"
    /\ UNCHANGED <<run_no, cost_center_users, script, chunk_size, team_members, remote0, cc_status, cost_center_set,
                   users_to_add, users_to_remove, users_already_synced, pending, queue,
                   results, added_count, removed_count, skipped, error_count, written>>

\* ---- the add-only script: `for login in members` (queue holds <<login>>)
SimpleAdd ==
    /\ script = "simple" /\ r_pc = "adding" /\ queue # <<>>
    /\ \E o \in SimpleAddAnswers :
        LET login == Head(queue)[1]
            ok == o.kind = "Success"
        IN /\ o.kind # "HardFailure"
           /\ results' = Append(results,
                            Row(login, "add", IF ok THEN "added" ELSE "skipped", o.msg))
           /\ added_count' = IF ok THEN added_count + 1 ELSE added_count
           /\ skipped' = IF ok THEN skipped ELSE skipped + 1
           /\ remote' = IF ok THEN remote \cup {login} ELSE remote
           /\ calls' = Append(calls, [action |-> "add", users |-> <<login>>])
           /\ last_call' = o
    /\ queue' = Tail(queue)
    /\ UNCHANGED <<run_no, cost_center_users, script, r_pc, chunk_size, team_members, remote0, cc_status,
                   cost_center_set, users_to_add, users_to_remove, users_already_synced,
                   pending, removed_count, error_count, written>>

SimpleAbort ==
    /\ script = "simple" /\ r_pc = "adding" /\ queue # <<>>
    /\ \E o \in SimpleAddAnswers :
        /\ o.kind = "HardFailure"
        /\ calls' = Append(calls, [action |-> "add", users |-> Head(queue)])
        /\ last_call' = o
    /\ r_pc' = "aborted"
    /\ UNCHANGED <<run_no, cost_center_users, script, chunk_size, team_members, remote, remote0, cc_status,
                   cost_center_set, users_to_add, users_to_remove, users_already_synced,
                   pending, queue, results, added_count, removed_count, skipped,
                   error_count, written>>

SimpleCrash ==
    /\ script = "simple" /\ r_pc = "adding" /\ queue # <<>>
    /\ remote' \in MaybeApplied(remote \cup RangeOf(Head(queue)))
    /\ calls' = Append(calls, [action |-> "add", users |-> Head(queue)])
    /\ last_call' = TransportError("add")
    /\ r_pc' = "crashed"
    /\ UNCHANGED <<run_no, cost_center_users, script, chunk_size, team_members, remote0, cc_status, cost_center_set,
                   users_to_add, users_to_remove, users_already_synced, pending, queue,
                   results, added_count, removed_count, skipped, error_count, written>>

\* the loop of an add-only script is over: the CSV writer, then "Done."
WriteReport ==
    /\ script \in {"batched", "simple"} /\ r_pc = "adding" /\ queue = <<>>
    /\ written' = TRUE
    /\ r_pc' = "done"
    /\ UNCHANGED <<run_no, cost_center_users, script, chunk_size, team_members, remote, remote0, cc_status,
                   cost_center_set, users_to_add, users_to_remove, users_already_synced,
                   pending, queue, results, added_count, removed_count, skipped,
                   error_count, calls, last_call>>

(***************************************************************************)
(* Single calls of extract_memberships and parse_next_link, on payloads    *)
(* and headers of every shape within the bounds.                           *)
(***************************************************************************)
MaxEntries == 2
MaxSegments == 3

\* the values a payload can hold under a key
EntryValues ==
    {ScalarValue, DictValue(<<>>), ListValue(<<>>),
     ListValue(<<Member("alice", "")>>), ListValue(<<Member("", "bob")>>),
     ListValue(<<NonDictItem, Member("carol", "")>>)}

EntryKeys == {"memberships", "items", "value", "data", "foo"}

\* the dicts of at most MaxEntries entries, no key twice
DictPayloads ==
    {DictValue(es) : es \in {l \in SeqsUpTo({Entry(k, v) : k \in EntryKeys, v \in EntryValues},
                                             MaxEntries) :
                                \A i, j \in 1 .. Len(l) : i # j => l[i].key # l[j].key}}

Payloads == DictPayloads \cup (EntryValues \ {DictValue(<<>>)})

\* the comma-separated segments a Link header is made of: well-formed ones,
\* one for each relation, and malformed ones
HeaderSegments ==
    {<<"<", "page_2", ">", ";", "rel=next">>,
     <<"<", "page_1", ">", ";", "rel=prev">>,
     <<"<", "page_3", ">", ";", "rel=next">>,
     <<"rel=next", ";", "<", "page_2", ">">>,
     <<"rel=next">>,
     <<"<", ">", ";", "rel=next">>,
     <<">", "page_2", "<", ";", "rel=next">>,
     <<"<", "page_2">>,
     <<"page_2", ">", ";", "rel=next">>}

RECURSIVE JoinSegments(_)
JoinSegments(segs) ==
    IF Len(segs) = 1 THEN segs[1]
    ELSE segs[1] \o <<",">> \o JoinSegments(Tail(segs))

\* the headers of at most MaxSegments segments, and the absent header
LinkHeaders ==
    {<<>>} \cup {JoinSegments(segs) : segs \in SeqsUpTo(HeaderSegments, MaxSegments) \ {<<>>}}

CallIdle == f_pc = "idle" /\ f_name = "none" /\ f_arg = <<>> /\ f_ret = <<>>

InitCallVars ==
    /\ f_pc = "called"
    /\ \/ f_name = "extract_memberships" /\ f_arg \in Payloads
       \/ f_name = "parse_next_link" /\ f_arg \in LinkHeaders
    /\ f_ret = <<>>

CallExtractMemberships ==
    /\ f_pc = "called" /\ f_name = "extract_memberships"
    /\ f_ret' = extract_memberships(f_arg)
    /\ f_pc' = "returned"
    /\ UNCHANGED <<f_name, f_arg>>

CallParseNextLink ==
    /\ f_pc = "called" /\ f_name = "parse_next_link"
    /\ f_ret' = parse_next_link(f_arg)
    /\ f_pc' = "returned"
    /\ UNCHANGED <<f_name, f_arg>>

(***************************************************************************)
(* Specifications                                                          *)
(***************************************************************************)
InitBackoff == InitBackoffVars /\ PagerIdle /\ ChunkIdle /\ RunIdle /\ CallIdle
NextBackoff ==
    \/ AttemptReturn /\ UNCHANGED <<pagerVars, chunkVars, runVars, callVars>>
    \/ AttemptForbidden /\ UNCHANGED <<pagerVars, chunkVars, runVars, callVars>>
    \/ AttemptSleep /\ UNCHANGED <<pagerVars, chunkVars, runVars, callVars>>
    \/ Exhausted /\ UNCHANGED <<pagerVars, chunkVars, runVars, callVars>>
SpecBackoff == InitBackoff /\ [][NextBackoff]_vars

InitPager == InitPagerVars /\ BackoffIdle /\ ChunkIdle /\ RunIdle /\ CallIdle
NextPager ==
    \/ PageRejected /\ UNCHANGED <<backoffVars, chunkVars, runVars, callVars>>
    \/ PageCrashes /\ UNCHANGED <<backoffVars, chunkVars, runVars, callVars>>
    \/ PageTooMany /\ UNCHANGED <<backoffVars, chunkVars, runVars, callVars>>
    \/ PageContinue /\ UNCHANGED <<backoffVars, chunkVars, runVars, callVars>>
    \/ PageFinish /\ UNCHANGED <<backoffVars, chunkVars, runVars, callVars>>
SpecPager == InitPager /\ [][NextPager]_vars

InitChunk == InitChunkVars /\ BackoffIdle /\ PagerIdle /\ RunIdle /\ CallIdle
NextChunk == CallChunked /\ UNCHANGED <<backoffVars, pagerVars, runVars, callVars>>
SpecChunk == InitChunk /\ [][NextChunk]_vars

Init == InitRunVars /\ BackoffIdle /\ PagerIdle /\ ChunkIdle /\ CallIdle
Next ==
    \/ FetchTeam /\ UNCHANGED <<backoffVars, pagerVars, chunkVars, callVars>>
    \/ FetchTeamFails /\ UNCHANGED <<backoffVars, pagerVars, chunkVars, callVars>>
    \/ FetchCostCenter /\ UNCHANGED <<backoffVars, pagerVars, chunkVars, callVars>>
    \/ FetchCostCenterNotFound /\ UNCHANGED <<backoffVars, pagerVars, chunkVars, callVars>>
    \/ FetchCostCenterFails /\ UNCHANGED <<backoffVars, pagerVars, chunkVars, callVars>>
    \/ ExactAdd /\ UNCHANGED <<backoffVars, pagerVars, chunkVars, callVars>>
    \/ ExactAddAbort /\ UNCHANGED <<backoffVars, pagerVars, chunkVars, callVars>>
    \/ ExactAddError /\ UNCHANGED <<backoffVars, pagerVars, chunkVars, callVars>>
    \/ ExactRemove /\ UNCHANGED <<backoffVars, pagerVars, chunkVars, callVars>>
    \/ ExactRemoveAbort /\ UNCHANGED <<backoffVars, pagerVars, chunkVars, callVars>>
    \/ ExactRemoveError /\ UNCHANGED <<backoffVars, pagerVars, chunkVars, callVars>>
    \/ ExactReport /\ UNCHANGED <<backoffVars, pagerVars, chunkVars, callVars>>
    \/ BatchAdd /\ UNCHANGED <<backoffVars, pagerVars, chunkVars, callVars>>
    \/ BatchAbort /\ UNCHANGED <<backoffVars, pagerVars, chunkVars, callVars>>
    \/ BatchCrash /\ UNCHANGED <<backoffVars, pagerVars, chunkVars, callVars>>
    \/ SimpleAdd /\ UNCHANGED <<backoffVars, pagerVars, chunkVars, callVars>>
    \/ SimpleAbort /\ UNCHANGED <<backoffVars, pagerVars, chunkVars, callVars>>
    \/ SimpleCrash /\ UNCHANGED <<backoffVars, pagerVars, chunkVars, callVars>>
    \/ WriteReport /\ UNCHANGED <<backoffVars, pagerVars, chunkVars, callVars>>
Spec == Init /\ [][Next]_vars

\* ---- the reconciling script run a second time
\* main is started again after a run that ended with every mutation row a
\* success: all of main's locals are fresh, the remote is what the first run
\* left, and the team fetch returns the same list
Rerun ==
    /\ script = "exact" /\ r_pc = "done" /\ run_no = 1
    /\ \A i \in 1 .. Len(results) : results[i].status \in {"success", "already_synced"}
    /\ run_no' = 2
    /\ r_pc' = "fetch_cc"
    /\ remote0' = remote
    /\ cc_status' = 0
    /\ cost_center_users' = <<>> /\ cost_center_set' = {}
    /\ users_to_add' = {} /\ users_to_remove' = {} /\ users_already_synced' = {}
    /\ pending' = {} /\ results' = <<>>
    /\ added_count' = 0 /\ removed_count' = 0 /\ error_count' = 0
    /\ calls' = <<>> /\ last_call' = NoCall /\ written' = FALSE
    /\ UNCHANGED <<script, chunk_size, team_members, remote, queue, skipped>>

InitRerun == Init /\ script = "exact"
NextRerun ==
    \/ FetchTeam /\ UNCHANGED <<backoffVars, pagerVars, chunkVars, callVars>>
    \/ FetchTeamFails /\ UNCHANGED <<backoffVars, pagerVars, chunkVars, callVars>>
    \/ FetchCostCenter /\ UNCHANGED <<backoffVars, pagerVars, chunkVars, callVars>>
    \/ FetchCostCenterNotFound /\ UNCHANGED <<backoffVars, pagerVars, chunkVars, callVars>>
    \/ FetchCostCenterFails /\ UNCHANGED <<backoffVars, pagerVars, chunkVars, callVars>>
    \/ ExactAdd /\ UNCHANGED <<backoffVars, pagerVars, chunkVars, callVars>>
    \/ ExactAddAbort /\ UNCHANGED <<backoffVars, pagerVars, chunkVars, callVars>>
    \/ ExactAddError /\ UNCHANGED <<backoffVars, pagerVars, chunkVars, callVars>>
    \/ ExactRemove /\ UNCHANGED <<backoffVars, pagerVars, chunkVars, callVars>>
    \/ ExactRemoveAbort /\ UNCHANGED <<backoffVars, pagerVars, chunkVars, callVars>>
    \/ ExactRemoveError /\ UNCHANGED <<backoffVars, pagerVars, chunkVars, callVars>>
    \/ ExactReport /\ UNCHANGED <<backoffVars, pagerVars, chunkVars, callVars>>
    \/ Rerun /\ UNCHANGED <<backoffVars, pagerVars, chunkVars, callVars>>
SpecRerun == InitRerun /\ [][NextRerun]_vars

InitCalls == InitCallVars /\ BackoffIdle /\ PagerIdle /\ ChunkIdle /\ RunIdle
NextCalls ==
    \/ CallExtractMemberships /\ UNCHANGED <<backoffVars, pagerVars, chunkVars, runVars>>
    \/ CallParseNextLink /\ UNCHANGED <<backoffVars, pagerVars, chunkVars, runVars>>
SpecCalls == InitCalls /\ [][NextCalls]_vars

(***************************************************************************)
(* Properties                                                              *)
(***************************************************************************)

\* the reconciling script has computed its plan
Planned ==
    script = "exact" /\ r_pc \in {"adding", "removing", "report", "done", "aborted"}
    /\ cc_status \in {200, 404} /\ (r_pc = "aborted" => calls # <<>>)

\* C1: once the plan is computed, with source the team members and target the
\* cost-center users, toAdd = source \ target, toRemove = target \ source and
\* alreadySynced = source \cap target; the three are pairwise disjoint,
\* toAdd \cup alreadySynced = source and toRemove \cup alreadySynced = target.
C1_PlanPartition ==
    Planned =>
        LET source == RangeOf(team_members)
            target == cost_center_set
        IN /\ users_to_add = {x \in source : x \notin target}
           /\ users_to_remove = {x \in target : x \notin source}
           /\ users_already_synced = {x \in source : x \in target}
           /\ users_to_add \cap users_to_remove = {}
           /\ users_to_add \cap users_already_synced = {}
           /\ users_to_remove \cap users_already_synced = {}
           /\ users_to_add \cup users_already_synced = source
           /\ users_to_remove \cup users_already_synced = target

C1_Witness ==
    /\ Planned
    /\ users_to_add # {} /\ users_to_remove # {} /\ users_already_synced # {}

\* every add and remove of the run was classified Success
AllMutationsSucceeded ==
    \A i \in 1 .. Len(results) :
        results[i].action \in {"add", "remove"} => results[i].status = "success"

Retryable(e) == e.status = 429 \/ (e.status = 403 /\ e.marked)

\* C3: the executor sleeps on a response and goes on to the next iteration if
\* and only if the response is a 429 or a 403 marked as a secondary rate limit;
\* any other response is returned at once, without a sleep and without a
\* further request (so every response but the last one received was retryable).
C3_RetryIffRateLimited ==
    (b_pc \in {"loop", "returned"} /\ received # <<>>) =>
        LET e == received[Len(received)]
        IN /\ Retryable(e) <=> slept_last
           /\ Retryable(e) => attempt = Len(received)
           /\ ~Retryable(e) =>
                /\ b_pc = "returned" /\ ret = last
                /\ attempt = Len(received) - 1
                /\ n_sleeps = Len(received) - 1
           /\ \A k \in 1 .. (Len(received) - 1) : Retryable(received[k])

C3_Witness ==
    /\ b_pc = "returned" /\ n_sleeps = 2
    /\ Len(received) = 3
    /\ received[1] = [status |-> 403, marked |-> TRUE]
    /\ received[2] = [status |-> 429, marked |-> FALSE]
    /\ received[3] = [status |-> 403, marked |-> FALSE]
    /\ last.body.text # "absent"

\* C4: for max_retries >= 1 the executor issues at most max_retries requests;
\* when all of them were answered with retryable responses the loop is over
\* and the last response received is returned, no error is raised.
C4_AtMostMaxRetries ==
    max_retries >= 1 =>
        /\ Len(received) <= max_retries
        /\ b_pc # "assert_failed"
        /\ (Len(received) = max_retries /\ \A k \in 1 .. Len(received) : Retryable(received[k]))
            => /\ b_pc \in {"loop", "returned"}
               /\ b_pc = "loop" => ~LoopContinues
               /\ b_pc = "returned" => (ret = last /\ Seen(ret) = received[max_retries])

C4_Witness ==
    /\ max_retries = 8 /\ Len(received) = 8 /\ b_pc = "returned"
    /\ ret.status = 429 /\ \A k \in 1 .. 8 : Retryable(received[k])

\* C5: a response that is not retryable is the last one received: if it is the
\* k-th, exactly k - 1 sleeps were made (one after each earlier response) and
\* it is the response returned; after 429, 429, 200 there were 2 sleeps and
\* the 200 is returned.
C5_SleepsBeforeFirstFinal ==
    /\ \A k \in 1 .. Len(received) :
        ~Retryable(received[k]) =>
            /\ k = Len(received)
            /\ b_pc = "returned"
            /\ n_sleeps = k - 1
            /\ ret = last /\ Seen(ret) = received[k]
    /\ (b_pc = "loop" => n_sleeps = Len(received))
    /\ ([i \in 1 .. Len(received) |-> received[i].status] = <<429, 429, 200>>
            => (n_sleeps = 2 /\ b_pc = "returned" /\ ret.status = 200))

C5_Witness ==
    /\ [i \in 1 .. Len(received) |-> received[i].status] = <<429, 429, 200>>
    /\ n_sleeps = 2 /\ ret.status = 200

\* min(max_backoff_seconds, 2^a) in tenths, by repeated doubling
RECURSIVE CappedDoubling(_)
CappedDoubling(a) ==
    IF a = 0 THEN 10
    ELSE IF 2 * CappedDoubling(a - 1) >= 600 THEN 600 ELSE 2 * CappedDoubling(a - 1)

\* the delay of the sleep that followed the last response
C6_DelayOfLastSleep ==
    slept_last =>
        IF last.retry_after >= 0
        THEN sleep_s = 10 * last.retry_after
        ELSE /\ sleep_base = CappedDoubling(attempt - 1)
             /\ sleep_base <= 600
             /\ sleep_s - sleep_base \in 0 .. 15

\* C6: a retry that follows a response with a Retry-After of N (a non-negative
\* integer) sleeps exactly N seconds, whatever the attempt and without a cap;
\* any other retry sleeps min(60, 2^attempt) seconds plus a jitter of 0 to 1.5
\* seconds, attempt counted from 0; the part without jitter never decreases
\* from one sleep to the next and never exceeds 60 seconds.
C6_SleepDelay ==
    /\ [] C6_DelayOfLastSleep
    /\ [][sleep_base' >= sleep_base]_vars

C6_Witness ==
    /\ slept_last /\ last.retry_after = 70 /\ sleep_s = 700
    /\ sleep_base = 600 /\ attempt = 8

\* C7: with every page answered 200 and carrying a next locator the page loop
\* stops after exactly 200 fetches with the too-many-pages error; there is
\* never a 201st fetch.
C7_PageGuard ==
    /\ n_fetches <= 200
    /\ (p_pc = "loop" => (n_fetches < 200 /\ n_fetches = page - 1))
    /\ (p_pc = "too_many_pages" => n_fetches = 200)
    /\ ((n_fetches = 200 /\ p_pc # "failed" /\ srv_next # <<>>) => p_pc = "too_many_pages")

C7_Witness ==
    p_pc = "too_many_pages" /\ n_fetches = 200 /\ srv_next # <<>> /\ p_script = "export"

\* the identities among what the server served
ServedIds == SelectSeq(served, LAMBDA x : x # "")

\* l without the later occurrences of its values
RECURSIVE FirstOccurrences(_)
FirstOccurrences(l) ==
    IF l = <<>> THEN <<>>
    ELSE LET init == SubSeq(l, 1, Len(l) - 1)
             x == l[Len(l)]
         IN IF \E i \in 1 .. Len(init) : init[i] = x
            THEN FirstOccurrences(init)
            ELSE Append(FirstOccurrences(init), x)

\* the fetch has read a chain of n_fetches good pages, the last without next locator
ChainEnded ==
    p_script = "sync" /\ p_pc # "failed" /\ n_fetches >= 1 /\ srv_next = <<>>

\* C8: a chain of n pages, 1 <= n <= 200, all answered 200 and only the last
\* without next locator, is fetched in exactly n requests, each after the first
\* to the next locator of the response before; the fetch ends normally and
\* returns the identities of all the pages.
C8_FiniteChainCompletes ==
    /\ (p_pc = "loop" /\ n_fetches >= 1) => (next_url = srv_next /\ srv_next # <<>>)
    /\ (ChainEnded /\ n_fetches <= 200) =>
            (p_pc = "done" /\ unique = FirstOccurrences(ServedIds))

\* the same for the chains the code does complete: n <= 199
C8_ChainsBelowTheGuard ==
    /\ (p_pc = "loop" /\ n_fetches >= 1) => (next_url = srv_next /\ srv_next # <<>>)
    /\ (ChainEnded /\ n_fetches <= 199) =>
            (p_pc = "done" /\ unique = FirstOccurrences(ServedIds))
    /\ (ChainEnded /\ n_fetches = 200) => p_pc = "too_many_pages"

RECURSIVE Flatten(_)
Flatten(ll) == IF ll = <<>> THEN <<>> ELSE Head(ll) \o Flatten(Tail(ll))

\* ceil(n / s): the least k with k * s >= n
CeilDiv(n, s) == CHOOSE k \in 0 .. n : k * s >= n /\ \A j \in 0 .. (k - 1) : j * s < n

\* C9: chunked(xs, s) for a positive s returns chunks whose concatenation is xs,
\* ceil(n / s) of them, none empty, none longer than s and all but the last of
\* length s; for the empty list it returns no chunk at all.
C9_Chunked ==
    c_pc = "returned" =>
        /\ Flatten(chunks) = xs
        /\ Len(chunks) = CeilDiv(Len(xs), size)
        /\ \A k \in 1 .. Len(chunks) :
            /\ Len(chunks[k]) >= 1 /\ Len(chunks[k]) <= size
            /\ k < Len(chunks) => Len(chunks[k]) = size
        /\ (xs = <<>> => chunks = <<>>)

C9_Witness ==
    c_pc = "returned" /\ Len(xs) = 4 /\ size = 3 /\ Len(chunks) = 2 /\ Len(chunks[2]) = 1

\* the rows the report holds for the users of the most recent mutation call
RowsOfLastCall ==
    LET users == RangeOf(calls[Len(calls)].users)
    IN {i \in 1 .. Len(results) :
            results[i].login \in users /\ results[i].action = last_call.action}

\* C10: in each sync script an add call that ends with 200, 201, 202 or 204 is
\* a Success; one that ends with 409 or 422 is a BenignSkip, with or without a
\* duplicate marker in the body: its users are reported as skipped and the run
\* goes on; any other status is a HardFailure: no row is written and the run
\* is aborted.
C10_AddClassification ==
    (last_call.action = "add" /\ last_call.status # TRANSPORT_ERROR) =>
        LET users == RangeOf(calls[Len(calls)].users)
            rows == RowsOfLastCall
        IN /\ last_call.status \in {200, 201, 202, 204} =>
                /\ last_call.kind = "Success"
                /\ r_pc \notin {"aborted", "crashed"}
                /\ Cardinality(rows) = Cardinality(users)
                /\ \A i \in rows : results[i].status \in {"success", "added"}
           /\ last_call.status \in {409, 422} =>
                /\ last_call.kind = "BenignSkip"
                /\ r_pc \notin {"aborted", "crashed"}
                /\ Cardinality(rows) = Cardinality(users)
                /\ \A i \in rows : results[i].status = "skipped"
           /\ last_call.status \notin {200, 201, 202, 204, 409, 422} =>
                /\ last_call.kind = "HardFailure"
                /\ r_pc = "aborted"
                /\ rows = {}

C10_Witness ==
    /\ script = "batched" /\ last_call.action = "add"
    /\ last_call.status = 422 /\ last_call.msg = "raw"
    /\ r_pc = "adding" /\ queue # <<>> /\ Len(results) >= 2
    /\ results[Len(results)].status = "skipped"

\* C11: a remove call that ends with 200, 201, 202 or 204 is a Success; one
\* that ends with 400 (with or without the "no resources" marker) or with 404
\* is a BenignSkip: its user is reported as skipped and the run goes on; any
\* other status is a HardFailure.  The two mappings are independent: 409 and
\* 422 are hard failures of a remove, 400 and 404 hard failures of an add.
C11_RemoveClassification ==
    /\ (last_call.action = "remove" /\ last_call.status # TRANSPORT_ERROR) =>
        LET rows == RowsOfLastCall
        IN /\ last_call.status \in {200, 201, 202, 204} =>
                /\ last_call.kind = "Success"
                /\ r_pc \in {"removing", "report", "done"}
                /\ Cardinality(rows) = 1
                /\ \A i \in rows : results[i].status = "success"
           /\ last_call.status \in {400, 404} =>
                /\ last_call.kind = "BenignSkip"
                /\ r_pc \in {"removing", "report", "done"}
                /\ Cardinality(rows) = 1
                /\ \A i \in rows : results[i].status = "skipped"
           /\ last_call.status \notin {200, 201, 202, 204, 400, 404} =>
                /\ last_call.kind = "HardFailure"
                /\ r_pc = "aborted"
                /\ rows = {}
    /\ (last_call.action = "add" /\ last_call.status \in {400, 404}) =>
            (last_call.kind = "HardFailure" /\ r_pc = "aborted")

C11_Witness ==
    /\ script = "exact" /\ last_call.action = "remove"
    /\ last_call.status = 400 /\ last_call.kind = "BenignSkip"
    /\ r_pc = "removing" /\ pending # {}
    /\ results[Len(results)] = Row(calls[Len(calls)].users[1], "remove", "skipped", "Skip")

\* the step is a mutation call that is classified HardFailure
HardFailureStep == calls' # calls /\ last_call'.kind = "HardFailure"

\* C12: a HardFailure of any mutation call aborts the whole run at once: the
\* call appends no report row, the run is aborted with no report handed to the
\* writer, and an aborted run takes no further step (no add or remove request,
\* no row, no report); the reconciling script does not make it a per-item error.
C12_HardFailureAborts ==
    /\ [](last_call.kind = "HardFailure" => (r_pc = "aborted" /\ ~written))
    /\ [][HardFailureStep => (results' = results /\ r_pc' = "aborted" /\ ~written')]_vars
    /\ [][r_pc # "aborted"]_vars

C12_Witness ==
    /\ script = "exact" /\ r_pc = "aborted" /\ last_call.kind = "HardFailure"
    /\ last_call.action = "add" /\ last_call.status = 500
    /\ Cardinality(pending) >= 2 /\ users_to_remove # {}
    /\ results # <<>> /\ ~written

\* C13: in a run of the reconciling script a 429 answered to the cost-center
\* fetch, an add or a remove is retried inside the executor and stays
\* invisible to the caller: it neither aborts the run nor yields a report row
\* (the script issues each request once, so no retry ceiling has been reached
\* when the caller sees the response).
C13_TransientsInvisible ==
    (script = "exact" /\ ~UsesExecutor(script)) =>
        /\ (last_call.status = 429 => (r_pc # "aborted" /\ RowsOfLastCall = {}))
        /\ (cc_status = 429 => r_pc # "aborted")

\* s is an initial part of t
IsPrefix(s, t) == Len(s) <= Len(t) /\ SubSeq(t, 1, Len(s)) = s

\* the report and the requests of the reconciling script are in phase order
PhaseOrdered ==
    /\ \A i, j \in 1 .. Len(results) :
        /\ (results[i].action = "add" /\ results[j].action = "remove") => i < j
        /\ (results[i].action = "remove" /\ results[j].action = "none") => i < j
        /\ (results[i].action = "add" /\ results[j].action = "none") => i < j
    /\ \A i, j \in 1 .. Len(calls) :
        (calls[i].action = "add" /\ calls[j].action = "remove") => i < j
    /\ (\E j \in 1 .. Len(calls) : calls[j].action = "remove") =>
        /\ {calls[i].users[1] : i \in {k \in 1 .. Len(calls) : calls[k].action = "add"}}
                = users_to_add
        /\ Cardinality({i \in 1 .. Len(results) : results[i].action = "add"})
                = Cardinality(users_to_add)

\* C14: the report of the reconciling script is append-only and in phase
\* order: a step never changes or drops a row already there, every add row
\* comes before every remove row and every remove row before every
\* already-synced row, and a remove request is issued only after every add
\* request has been made and classified.
C14_ReportAppendOnly ==
    /\ [](script = "exact" => PhaseOrdered)
    /\ [][script = "exact" => IsPrefix(results, results')]_vars

C14_Witness ==
    /\ script = "exact" /\ r_pc = "done" /\ Len(results) = 4
    /\ results[1].action = "add" /\ results[2].action = "remove"
    /\ results[3].action = "remove" /\ results[4].action = "none"
    /\ results[1].status = "error"

\* the scenario: source {alice, bob, carol}, target {bob, dan}
Scenario ==
    /\ Planned
    /\ RangeOf(team_members) = {"alice", "bob", "carol"}
    /\ cost_center_set = {"bob", "dan"}

\* the scenario's run is over and every mutation call was answered 201 (the
\* rows keep the classification of each call, last_call the status of the last)
ScenarioDone ==
    Scenario /\ r_pc = "done" /\ AllMutationsSucceeded /\ error_count = 0
    /\ last_call.status = 201

\* a row without its message
RowKey(r) == <<r.login, r.action, r.status>>

ScenarioRows ==
    {<<"alice", "add", "success">>, <<"carol", "add", "success">>,
     <<"dan", "remove", "success">>, <<"bob", "none", "already_synced">>}

ScenarioPlan ==
    /\ users_to_add = {"alice", "carol"}
    /\ users_to_remove = {"dan"}
    /\ users_already_synced = {"bob"}

\* C15: with source {alice, bob, carol}, target {bob, dan} and every mutation
\* call answered 201, the plan is toAdd = {alice, carol}, toRemove = {dan},
\* alreadySynced = {bob} and the report holds the 4 rows alice/add/success,
\* carol/add/success, dan/remove/success, bob/none/already_synced, the adds
\* first, then the remove, then the already-synced row.
C15_Scenario ==
    /\ Scenario => ScenarioPlan
    /\ ScenarioDone =>
        /\ Len(results) = 4
        /\ {RowKey(results[i]) : i \in 1 .. Len(results)} = ScenarioRows
        /\ RowKey(results[3]) = <<"dan", "remove", "success">>
        /\ RowKey(results[4]) = <<"bob", "none", "already_synced">>
        /\ written

C15_Witness ==
    /\ ScenarioDone /\ Len(results) = 4 /\ remote0 = {"bob", "dan"}
    /\ results[1].login = "carol" /\ results[2].login = "alice"

\* C15 as stated: the same plan, and a report of 5 rows made of the four listed
C15_ScenarioFiveRows ==
    /\ Scenario => ScenarioPlan
    /\ ScenarioDone =>
        /\ Len(results) = 5
        /\ {RowKey(results[i]) : i \in 1 .. Len(results)} = ScenarioRows

\* how many requests of the given action name x
RequestsFor(x, action) ==
    Cardinality({i \in 1 .. Len(calls) :
                    calls[i].action = action /\ x \in RangeOf(calls[i].users)})

\* the rows of the report about x
RowsFor(x) == {i \in 1 .. Len(results) : results[i].login = x}

\* C16: in the reconciling script every identity to add receives exactly one
\* add request (none yet while its turn has not come) and no remove request,
\* every identity to remove exactly one remove request and no add request, and
\* an already-synced identity no request at all: it only gets one row, with
\* action none and status already_synced.
C16_OneRequestPerIdentity ==
    script = "exact" =>
        \A x \in TeamIds \cup CostCenterIds :
            /\ RequestsFor(x, "add") <= 1 /\ RequestsFor(x, "remove") <= 1
            /\ x \in users_to_add =>
                /\ RequestsFor(x, "remove") = 0
                /\ r_pc \in {"removing", "report", "done"} => RequestsFor(x, "add") = 1
            /\ x \in users_to_remove =>
                /\ RequestsFor(x, "add") = 0
                /\ r_pc \in {"report", "done"} => RequestsFor(x, "remove") = 1
            /\ x \in users_already_synced =>
                /\ RequestsFor(x, "add") = 0 /\ RequestsFor(x, "remove") = 0
                /\ \A i \in RowsFor(x) :
                    results[i].action = "none" /\ results[i].status = "already_synced"
                /\ Cardinality(RowsFor(x)) = (IF r_pc = "done" THEN 1 ELSE 0)
            /\ x \notin (users_to_add \cup users_to_remove) =>
                (RequestsFor(x, "add") = 0 /\ RequestsFor(x, "remove") = 0)

C16_Witness ==
    /\ script = "exact" /\ r_pc = "done"
    /\ users_to_add = {"alice"} /\ users_to_remove = {"dan"}
    /\ users_already_synced = {"bob", "carol"}
    /\ Len(calls) = 2 /\ Len(results) = 4
    /\ RequestsFor("alice", "add") = 1 /\ RequestsFor("dan", "remove") = 1

\* the list returned holds each distinct value of L exactly once
EachOnce(returned, L) ==
    /\ RangeOf(returned) = RangeOf(L)
    /\ \A i, j \in 1 .. Len(returned) : i # j => returned[i] # returned[j]

\* the team fetch: the returned list is the collected one without the later
\* occurrences of each value
C17_TeamFetchKeepsOrder ==
    (p_script = "sync" /\ p_pc = "done") =>
        (EachOnce(unique, logins) /\ unique = FirstOccurrences(logins))

\* the cost-center fetch returns each distinct login once
C17_CostCenterEachOnce ==
    (Planned /\ cc_status = 200) =>
        EachOnce(cost_center_users, CollectedLogins(Resources(remote0)))

\* C17: the list a fetch returns holds each distinct value of the collected
\* sequence L exactly once, in the order of first occurrence in L; here for
\* the cost-center fetch of the reconciling script.
C17_DedupKeepsFirstSeenOrder ==
    (Planned /\ cc_status = 200) =>
        LET L == CollectedLogins(Resources(remote0))
        IN /\ EachOnce(cost_center_users, L)
           /\ cost_center_users = FirstOccurrences(L)

\* the positions of the entries of dict payload d whose value is a list
ListEntries(d) == {i \in 1 .. Len(d.entries) : d.entries[i].val.type = "list"}

\* the list d holds under key k (d has one)
ListUnder(d, k) ==
    d.entries[CHOOSE i \in ListEntries(d) : d.entries[i].key = k].val.items

HasListUnder(d, k) == \E i \in ListEntries(d) : d.entries[i].key = k

\* the positions of the list entries that are empty or start with a mapping
RecordLists(d) ==
    {i \in ListEntries(d) :
        d.entries[i].val.items = <<>> \/ d.entries[i].val.items[1].is_dict}

\* the resolution order as stated
Resolved(payload) ==
    IF payload.type = "list" THEN payload.items
    ELSE IF payload.type # "dict" THEN <<>>
    ELSE IF HasListUnder(payload, "memberships") THEN ListUnder(payload, "memberships")
    ELSE IF HasListUnder(payload, "items") THEN ListUnder(payload, "items")
    ELSE IF HasListUnder(payload, "value") THEN ListUnder(payload, "value")
    ELSE IF HasListUnder(payload, "data") THEN ListUnder(payload, "data")
    ELSE IF RecordLists(payload) # {}
    THEN payload.entries[CHOOSE i \in RecordLists(payload) :
                            \A j \in RecordLists(payload) : i <= j].val.items
    ELSE <<>>

\* C18: extract_memberships returns a list payload as it is; of a mapping the
\* list under the first of the keys memberships, items, value, data that holds
\* a list, even when an entry before it in the mapping is a list too;
\* otherwise the first list-valued entry that is empty or starts with a
\* mapping; otherwise, the empty mapping and a scalar included, the empty
\* sequence.  It returns for every payload.
C18_ExtractMemberships ==
    /\ (f_name = "extract_memberships" /\ f_pc = "returned") => f_ret = Resolved(f_arg)
    /\ (f_name = "extract_memberships" /\ f_pc = "called") => ENABLED CallExtractMemberships

C18_Witness ==
    /\ f_name = "extract_memberships" /\ f_pc = "returned"
    /\ f_arg = DictValue(<<Entry("foo", ListValue(<<Member("alice", "")>>)),
                           Entry("items", ListValue(<<Member("", "bob")>>))>>)
    /\ f_ret = <<Member("", "bob")>>

\* the comma-separated segments of header h, by the positions of its commas
SegmentStarts(h) == {1} \cup {i + 1 : i \in {j \in 1 .. Len(h) : h[j] = ","}}
SegmentFrom(h, a) ==
    LET stops == {i \in a .. Len(h) : h[i] = ","} \cup {Len(h) + 1}
    IN SubSeq(h, a, (CHOOSE e \in stops : \A x \in stops : e <= x) - 1)

\* position of the first tok in seg, 0 when it has none
FirstAt(seg, tok) ==
    LET at == {i \in 1 .. Len(seg) : seg[i] = tok}
    IN IF at = {} THEN 0 ELSE CHOOSE i \in at : \A j \in at : i <= j

CarriesNext(seg) == \E i \in 1 .. Len(seg) : seg[i] = "rel=next"

\* seg has a non-empty locator between its first "<" and its first ">"
HasLocator(seg) == FirstAt(seg, "<") > 0 /\ FirstAt(seg, ">") > FirstAt(seg, "<") + 1

LocatorOf(seg) == SubSeq(seg, FirstAt(seg, "<") + 1, FirstAt(seg, ">") - 1)

\* where the segments start that carry rel="next" (and, for Usable, a locator)
NextSegments(h) == {a \in SegmentStarts(h) : CarriesNext(SegmentFrom(h, a))}
UsableSegments(h) == {a \in NextSegments(h) : HasLocator(SegmentFrom(h, a))}

ExampleHeader ==
    <<"<", "page_2", ">", ";", "rel=next", ",", "<", "page_1", ">", ";", "rel=prev">>

ParseReturned == f_name = "parse_next_link" /\ f_pc = "returned"

\* C19: parse_next_link returns the locator between the angle brackets of the
\* first comma-separated segment that carries rel="next" and has a non-empty
\* locator between its first "<" and its first ">", wherever that segment
\* stands; it returns none if and only if the header is absent or has no such
\* segment.  The example header yields page 2.
C19_ParseNextLink ==
    ParseReturned =>
        /\ f_ret = <<>> <=> (f_arg = <<>> \/ UsableSegments(f_arg) = {})
        /\ (f_arg # <<>> /\ UsableSegments(f_arg) # {}) =>
            f_ret = LocatorOf(SegmentFrom(f_arg,
                        CHOOSE a \in UsableSegments(f_arg) :
                            \A b \in UsableSegments(f_arg) : a <= b))
        /\ f_arg = ExampleHeader => f_ret = <<"page_2">>

C19_Witness ==
    /\ ParseReturned
    /\ f_arg = <<"<", "page_1", ">", ";", "rel=prev", ",", "rel=next", ",",
                 "<", "page_3", ">", ";", "rel=next">>
    /\ f_ret = <<"page_3">>

\* C19 as stated: the locator of the segment that carries rel="next" whenever
\* there is one, and none if and only if no segment carries rel="next" or the
\* header is absent
C19_NoneIffNoNextSegment ==
    ParseReturned =>
        /\ f_ret = <<>> <=> (f_arg = <<>> \/ NextSegments(f_arg) = {})
        /\ f_arg = ExampleHeader => f_ret = <<"page_2">>

\* the statuses of the responses the executor retries, hence the only ones it
\* can hand up after running out of attempts
ExhaustedStatuses == {429, 403}

\* the page fetch of the batched script: a page answered 429 or 403 when the
\* executor gives up fails the fetch, nothing is returned
C20_ExhaustedPageFetchFails ==
    (p_script = "sync" /\ page_status \in ExhaustedStatuses) =>
        (p_pc = "failed" /\ unique = <<>>)

\* the executor hands up a retryable response only when it has run out of attempts
C20_HandedUpOnlyWhenExhausted ==
    (b_pc = "returned" /\ Retryable(Seen(ret))) =>
        (Len(received) = max_retries /\ \A k \in 1 .. Len(received) : Retryable(received[k]))

\* C20: when the executor has run out of attempts on a mutation, the 429 or
\* 403 it hands up is classified HardFailure by the caller and the run aborts:
\* the call is never recorded as a Success or a BenignSkip, it gets no row.
C20_ExhaustedIsHardFailure ==
    (UsesExecutor(script) /\ last_call.action = "add"
        /\ last_call.status \in ExhaustedStatuses) =>
            /\ last_call.kind = "HardFailure"
            /\ r_pc = "aborted" /\ ~written
            /\ RowsOfLastCall = {}
            /\ Len(results) = added_count + skipped

C20_Witness ==
    /\ script = "batched" /\ last_call.status = 429 /\ last_call.kind = "HardFailure"
    /\ r_pc = "aborted" /\ Len(calls) = 2 /\ Len(queue) >= 2 /\ added_count >= 1

\* rows i and j of the batched script's report belong to the same batch
SameBatch(i, j) == (i - 1) \div chunk_size = (j - 1) \div chunk_size

\* C21: in the batched script each batch yields exactly one row per identity
\* of the batch, all with the batch's result and message; the rows follow the
\* order of the fetched member list, and when the run completes the number of
\* rows and added + skipped both equal the number of unique members.
C21_BatchRows ==
    script = "batched" =>
        /\ Len(results) <= Len(team_members)
        /\ \A i \in 1 .. Len(results) :
            results[i].login = team_members[i] /\ results[i].action = "add"
        /\ \A i, j \in 1 .. Len(results) :
            SameBatch(i, j) => (/\ results[i].status = results[j].status
                                /\ results[i].message = results[j].message)
        /\ Len(results) = Len(Flatten([k \in 1 .. Len(calls) |->
                                 IF k = Len(calls) /\ r_pc \in {"aborted", "crashed"}
                                 THEN <<>> ELSE calls[k].users]))
        /\ Len(results) = added_count + skipped
        /\ added_count = Cardinality({i \in 1 .. Len(results) : results[i].status = "added"})
        /\ skipped = Cardinality({i \in 1 .. Len(results) : results[i].status = "skipped"})
        /\ r_pc = "done" =>
            (written /\ Len(results) = Len(team_members)
                     /\ added_count + skipped = Len(team_members))

C21_Witness ==
    /\ script = "batched" /\ r_pc = "done" /\ chunk_size = 2
    /\ Len(team_members) = 3 /\ Len(results) = 3 /\ Len(calls) = 2
    /\ results[1].status = "added" /\ results[2].status = "added"
    /\ results[3].status = "skipped" /\ results[3].message = "raw"

\* the requests of the given action issued so far
CallsOf(action) == {k \in 1 .. Len(calls) : calls[k].action = action}

\* C22: the reconciling script chunks the add bucket and the remove bucket with
\* the configured chunk size and issues one mutation call per chunk, so a
\* completed run has made ceil(|toAdd| / size) add calls and
\* ceil(|toRemove| / size) remove calls.
C22_ReconcilerChunks ==
    (script = "exact" /\ r_pc = "done") =>
        /\ Cardinality(CallsOf("add"))
                = CeilDiv(Cardinality(users_to_add), DEFAULT_CHUNK_SIZE)
        /\ Cardinality(CallsOf("remove"))
                = CeilDiv(Cardinality(users_to_remove), DEFAULT_CHUNK_SIZE)

\* what the reconciling script does: one call per identity, of one identity
C22_OneCallPerIdentity ==
    (script = "exact" /\ r_pc = "done") =>
        /\ Cardinality(CallsOf("add")) = Cardinality(users_to_add)
        /\ Cardinality(CallsOf("remove")) = Cardinality(users_to_remove)
        /\ \A k \in 1 .. Len(calls) : Len(calls[k].users) = 1

\* the rows of the report with the given action (and status)
RowsWith(action) == {i \in 1 .. Len(results) : results[i].action = action}
RowsWithStatus(action, status) == {i \in RowsWith(action) : results[i].status = status}

\* C23: when the reconciling script completes, the report holds exactly one
\* row for every identity of source \cup target and no other: an add row for
\* each identity to add, a remove row for each to remove, a none row for each
\* already synced; the row count is |toAdd| + |toRemove| + |alreadySynced| and
\* the summary's added and removed are the numbers of add rows and remove rows
\* with status success.
C23_ReportTotality ==
    (script = "exact" /\ r_pc = "done") =>
        /\ written
        /\ {results[i].login : i \in 1 .. Len(results)}
                = RangeOf(team_members) \cup cost_center_set
        /\ \A x \in RangeOf(team_members) \cup cost_center_set : Cardinality(RowsFor(x)) = 1
        /\ {results[i].login : i \in RowsWith("add")} = users_to_add
        /\ {results[i].login : i \in RowsWith("remove")} = users_to_remove
        /\ {results[i].login : i \in RowsWith("none")} = users_already_synced
        /\ \A i \in 1 .. Len(results) : results[i].action \in {"add", "remove", "none"}
        /\ Len(results) = Cardinality(users_to_add) + Cardinality(users_to_remove)
                            + Cardinality(users_already_synced)
        /\ added_count = Cardinality(RowsWithStatus("add", "success"))
        /\ removed_count = Cardinality(RowsWithStatus("remove", "success"))

C23_Witness ==
    /\ script = "exact" /\ r_pc = "done" /\ Len(results) = 4
    /\ Cardinality(users_to_add) = 2 /\ Cardinality(users_to_remove) = 1
    /\ added_count = 1 /\ removed_count = 0
    /\ Cardinality(RowsWithStatus("add", "error")) = 1
    /\ Cardinality(RowsWithStatus("remove", "skipped")) = 1

\* C24: request_with_backoff always returns a response: whatever max_retries
\* is, the value 0 included, and whatever the responses are, the assertion
\* that a last response exists holds when the loop ends.
C24_AlwaysReturnsResponse ==
    /\ b_pc # "assert_failed"
    /\ (b_pc = "returned" => ret # NoResp)

\* with at least one attempt allowed a response is returned
C24_ReturnsWithOneAttempt ==
    max_retries >= 1 =>
        /\ b_pc # "assert_failed"
        /\ (b_pc = "returned" => ret # NoResp)

\* C25: request_with_backoff never sleeps without a request to follow: the
\* number of sleeps is at most max_retries - 1, and a sleep is never made after
\* the last attempt the loop permits.
C25_NoSleepAfterFinalAttempt ==
    max_retries >= 1 =>
        /\ n_sleeps <= max_retries - 1
        /\ (slept_last /\ b_pc = "loop") => LoopContinues

\* what the code does: one sleep after every retryable response, the last included
C25_OneSleepPerRetryable ==
    /\ n_sleeps <= max_retries
    /\ n_sleeps = Cardinality({k \in 1 .. Len(received) : Retryable(received[k])})

\* C26: when the cost-center fetch answers 404 the reconciling script goes on
\* with an empty target: nothing to remove, nothing already synced, the whole
\* team to add; no remove request is issued and, unless an add fails hard on
\* the way, every team member gets its add request.  Any other status that is
\* not 200 aborts the run before any mutation.
C26_CostCenterNotFound ==
    script = "exact" =>
        /\ cc_status = 404 =>
            /\ cost_center_users = <<>> /\ cost_center_set = {}
            /\ users_to_remove = {} /\ users_already_synced = {}
            /\ users_to_add = RangeOf(team_members)
            /\ CallsOf("remove") = {}
            /\ r_pc = "aborted" => (calls # <<>> /\ last_call.kind = "HardFailure")
            /\ r_pc \in {"report", "done"} =>
                \A x \in RangeOf(team_members) : RequestsFor(x, "add") = 1
        /\ cc_status \notin {0, 200, 404} =>
            (r_pc = "aborted" /\ calls = <<>> /\ results = <<>> /\ remote = remote0)

C26_Witness ==
    /\ script = "exact" /\ cc_status = 404 /\ r_pc = "done"
    /\ Len(team_members) = 2 /\ Len(calls) = 2 /\ added_count = 2
    /\ remote = RangeOf(team_members) /\ remote0 = {}

\* a mutation request of the reconciling script that raised instead of answering
TransportErrorStep ==
    script = "exact" /\ calls' # calls /\ last_call'.status = TRANSPORT_ERROR

ErrorRows == {i \in 1 .. Len(results) : results[i].status = "error"}

\* C27: in the reconciling script a mutation request that raises a transport
\* exception does not end the run: the step appends exactly one error row for
\* that identity and adds one to error_count, leaves the other counters alone
\* and goes on with the rest of the add phase, then the whole remove phase,
\* then the report; only a HardFailure answer aborts, and a run that reaches
\* its end after errors has issued every planned request and written the report.
C27_TransportErrorContinues ==
    /\ [][TransportErrorStep =>
            LET c == calls'[Len(calls')]
                login == c.users[1]
            IN /\ Len(c.users) = 1 /\ login \in pending
               /\ results' = Append(results, Row(login, c.action, "error", "Error"))
               /\ error_count' = error_count + 1
               /\ added_count' = added_count /\ removed_count' = removed_count
               /\ r_pc' \in {"adding", "removing", "report"}
               /\ r_pc' = r_pc => (pending' = pending \ {login} /\ pending' # {})
               /\ (r_pc = "adding" /\ r_pc' # "adding") =>
                    (pending = {login} /\ pending' = users_to_remove)
               /\ r_pc' = "report" => pending' = {}
               /\ ~written']_vars
    /\ [](script = "exact" => error_count = Cardinality(ErrorRows))
    /\ []((script = "exact" /\ r_pc = "aborted" /\ calls # <<>>)
            => last_call.kind = "HardFailure")
    /\ []((script = "exact" /\ r_pc = "done" /\ error_count > 0) =>
            /\ written
            /\ \A x \in users_to_add : RequestsFor(x, "add") = 1
            /\ \A x \in users_to_remove : RequestsFor(x, "remove") = 1
            /\ Len(calls) = Cardinality(users_to_add) + Cardinality(users_to_remove))

C27_Witness ==
    /\ script = "exact" /\ r_pc = "done" /\ written
    /\ error_count = 2 /\ added_count = 1
    /\ \E i \in ErrorRows : results[i].action = "add" /\ i < Len(results)
    /\ \E i \in ErrorRows : results[i].action = "remove"
    /\ \E i, j \in RowsWith("add") : i < j /\ results[i].status = "error"
                                        /\ results[j].status = "success"

====
